---- MODULE Spec2Model ----
(***************************************************************************)
(* Model of the lore retrieval engine (services/ai_service.py) and of the  *)
(* structured lore index (services/lore_structure.py) of Ponchik_bot.      *)
(*                                                                         *)
(* Texts are strings.  The Cyrillic of the lore is written in a one-letter *)
(* per letter Latin transliteration (so that len() of a word is kept):     *)
(* "kordon" is the gazetteer name of Kordon, "Lokacia" is the location tag *)
(* keyword of an episode header, "~" stands for the em dash.  "\n" is the  *)
(* newline.                                                                *)
(***************************************************************************)
EXTENDS Integers, Sequences, FiniteSets, TLC

(***************************************************************************)
(* Characters and the str methods the code uses                            *)
(***************************************************************************)
Ch(s, i) == SubSeq(s, i, i)

LowerAlpha == "abcdefghijklmnopqrstuvwxyz"
UpperAlpha == "ABCDEFGHIJKLMNOPQRSTUVWXYZ"
Digits == "0123456789"

LowerSet == {Ch(LowerAlpha, i) : i \in 1..Len(LowerAlpha)}
UpperSet == {Ch(UpperAlpha, i) : i \in 1..Len(UpperAlpha)}
DigitSet == {Ch(Digits, i) : i \in 1..Len(Digits)}

\* c.isalnum(), c.isalpha(), c.isspace()
AlphaSet == LowerSet \cup UpperSet
AlnumSet == LowerSet \cup UpperSet \cup DigitSet
IsAlpha(c) == c \in AlphaSet
IsAlnum(c) == c \in AlnumSet
IsSpace(c) == c \in {" ", "\n", "\t"}

\* c.lower(), c.upper() of one character
ToLower ==
  [c \in UpperSet |->
     Ch(LowerAlpha, CHOOSE i \in 1..Len(UpperAlpha) : Ch(UpperAlpha, i) = c)]
ToUpper ==
  [c \in LowerSet |->
     Ch(UpperAlpha, CHOOSE i \in 1..Len(LowerAlpha) : Ch(LowerAlpha, i) = c)]
LowerCh(c) == IF c \in UpperSet THEN ToLower[c] ELSE c
UpperCh(c) == IF c \in LowerSet THEN ToUpper[c] ELSE c

\* str.lower()
RECURSIVE LowerFrom(_, _)
LowerFrom(s, i) ==
  IF i > Len(s) THEN "" ELSE LowerCh(Ch(s, i)) \o LowerFrom(s, i + 1)
Lower(s) == LowerFrom(s, 1)

\* str.title(): the first letter of every run of letters in upper case,
\* the other letters in lower case
RECURSIVE TitleFrom(_, _)
TitleFrom(s, i) ==
  IF i > Len(s) THEN ""
  ELSE (IF i > 1 /\ IsAlpha(Ch(s, i - 1))
        THEN LowerCh(Ch(s, i))
        ELSE UpperCh(Ch(s, i))) \o TitleFrom(s, i + 1)
Title(s) == TitleFrom(s, 1)

\* str.strip(): without leading and trailing whitespace
RECURSIVE LStrip(_)
LStrip(s) ==
  IF Len(s) > 0 /\ IsSpace(Ch(s, 1)) THEN LStrip(SubSeq(s, 2, Len(s))) ELSE s
RECURSIVE RStrip(_)
RStrip(s) ==
  IF Len(s) > 0 /\ IsSpace(Ch(s, Len(s))) THEN RStrip(SubSeq(s, 1, Len(s) - 1)) ELSE s
Strip(s) == LStrip(RStrip(s))

\* str.rstrip(chars)
RECURSIVE RStripChars(_, _)
RStripChars(s, chars) ==
  IF Len(s) > 0 /\ Ch(s, Len(s)) \in chars
  THEN RStripChars(SubSeq(s, 1, Len(s) - 1), chars)
  ELSE s

\* s[i:] starts with p
StartsAt(s, i, p) == i + Len(p) - 1 <= Len(s) /\ SubSeq(s, i, i + Len(p) - 1) = p

\* needle in hay
Contains(hay, needle) == \E i \in 1..(Len(hay) + 1) : StartsAt(hay, i, needle)

\* hay.find(needle, from): the first index >= from, 0 when there is none
\* (indices are 1-based, Python's -1 is 0 here)
Find(hay, needle, from) ==
  IF \E i \in from..(Len(hay) + 1) : StartsAt(hay, i, needle)
  THEN CHOOSE i \in from..(Len(hay) + 1) :
         /\ StartsAt(hay, i, needle)
         /\ \A j \in from..(i - 1) : ~StartsAt(hay, j, needle)
  ELSE 0

\* str.split(sep) for a non-empty separator: empty pieces are kept
RECURSIVE Split(_, _)
Split(s, sep) ==
  LET p == Find(s, sep, 1)
  IN IF p = 0 THEN <<s>>
     ELSE <<SubSeq(s, 1, p - 1)>> \o Split(SubSeq(s, p + Len(sep), Len(s)), sep)

\* re.split(r"[...]", s): split at every character of the class
RECURSIVE SplitChars(_, _, _, _)
SplitChars(s, class, i, cur) ==
  IF i > Len(s) THEN <<cur>>
  ELSE IF Ch(s, i) \in class THEN <<cur>> \o SplitChars(s, class, i + 1, "")
  ELSE SplitChars(s, class, i + 1, cur \o Ch(s, i))

\* str.split(): split at runs of whitespace, no empty pieces
RECURSIVE SplitWs(_, _, _)
SplitWs(s, i, cur) ==
  IF i > Len(s) THEN (IF cur = "" THEN <<>> ELSE <<cur>>)
  ELSE IF IsSpace(Ch(s, i))
       THEN (IF cur = "" THEN <<>> ELSE <<cur>>) \o SplitWs(s, i + 1, "")
       ELSE SplitWs(s, i + 1, cur \o Ch(s, i))
Words(s) == SplitWs(s, 1, "")

\* sep.join(seq)
RECURSIVE Join(_, _)
Join(seq, sep) ==
  IF Len(seq) = 0 THEN ""
  ELSE IF Len(seq) = 1 THEN seq[1]
  ELSE seq[1] \o sep \o Join(Tail(seq), sep)

Range(seq) == {seq[i] : i \in 1..Len(seq)}


(***************************************************************************)
(* services/ai_service.py: the state of the module                         *)
(***************************************************************************)
VARIABLES
  fs,                        \* the lore directory the module is imported over
  pc,                        \* "start" before the import, "ready" after it,
                             \* "returned" when a call has just returned
  STEMMER,                   \* TRUE when nltk's SnowballStemmer was imported
  MORPH,                     \* TRUE when pymorphy2's MorphAnalyzer was built
  EXACT_IMPORTANT_KEYWORDS,  \* character names of the character file
  EPISODE_CHUNKS,            \* list of chunks of lore/episodes/*.txt
  GENERAL_CHUNKS,            \* list of chunks of lore/*.txt
  user_query,                \* argument of the last retrieve_relevant_lore
  query_locations,           \* the locations it found asserted in the query
  filtered_chunks,           \* its local candidate list when the call returns
  scored_chunks,             \* its local scored list when the call returns
  result                     \* the pair it returned

aiVars == <<fs, pc, STEMMER, MORPH, EXACT_IMPORTANT_KEYWORDS,
            EPISODE_CHUNKS, GENERAL_CHUNKS, user_query, query_locations,
            filtered_chunks,
            scored_chunks, result>>

\* services/lore_structure.py: the state of a LoreStructure
VARIABLES
  lore_fs,             \* the Lore directory the structure is built over
  lpc,                 \* "new" before __init__, "loaded" after it,
                       \* "found_character", "found_location",
                       \* "found_anomaly" and "found_mutant" when that
                       \* find_* call has just returned
  characters,          \* self.characters: canonical key -> Character
  char_aliases_index,  \* self.char_aliases_index: alias -> canonical key
  locations,           \* self.locations: canonical key -> Location
  loc_aliases_index,   \* self.loc_aliases_index: alias -> canonical key
  anomalies,           \* self.anomalies: canonical key -> Anomaly
  mutants,             \* self.mutants: canonical key -> Mutant
  find_name,           \* argument of the last find_* call
  found                \* the record it returned

loreVars == <<lore_fs, lpc, characters, char_aliases_index, locations,
              loc_aliases_index, anomalies, mutants, find_name, found>>

\* services/ai_service.py: a call of get_ai_response, and database.py's tables
VARIABLES
  rpc,                 \* "idle", "main_loop" while a request of the loop is
                       \* awaited, "without_lore" while the request of
                       \* get_ai_response_without_lore is, "returned"
  message_history,     \* argument of the call
  username,            \* argument of the call
  lore_result,         \* what retrieve_relevant_lore returned to the call
  model_index,         \* position of the loop in MODELS_TO_TRY
  requests,            \* the requests the call has sent to the client
  db,                  \* the usage table and the counter updates
  reply                \* the dict the call returned

respVars == <<rpc, message_history, username, lore_result, model_index,
              requests, db, reply>>

\* the handlers of a private chat: the user, his user_data, and the run of
\* the handler of the last update
VARIABLES
  user_id,             \* update.effective_user.id
  BOT_MAINTENANCE,     \* maintenance.BOT_MAINTENANCE
  user_data,           \* context.user_data of the user
  button_sent,         \* a /start message with the button is in the chat
  update,              \* the last update handled
  retrieved,           \* its handler called retrieve_relevant_lore
  ai_history,          \* the history its handler passed to get_ai_response,
                       \* <<>> when it passed none
  sent                 \* the messages its handler sent to the chat

privVars == <<user_id, BOT_MAINTENANCE, user_data, button_sent, update,
              retrieved, ai_history, sent>>

\* the handlers of the group chats
VARIABLES
  clock,               \* time.time()
  chat_data,           \* context.chat_data of every chat
  group_update,        \* the last update handled: its handler and chat
  group_sent,          \* the reply its handler sent to the chat
  replied_at,          \* for every chat, when the run began that sent the
                       \* last reply to it, 0 before the first one
  cd_report            \* what its handler reported, when it is /cdcheck

groupVars == <<clock, chat_data, group_update, group_sent, replied_at, cd_report>>

\* what the actions of one component leave alone
outsideAi == <<loreVars, respVars, privVars, groupVars>>
outsideLore == <<aiVars, respVars, privVars, groupVars>>
outsideResp == <<aiVars, loreVars, privVars, groupVars>>
outsidePriv == <<aiVars, loreVars, respVars, groupVars>>
outsideGroup == <<aiVars, loreVars, respVars, privVars>>

STOP_WORDS ==
  {"a", "v", "i", "k", "na", "o", "ob", "ot", "po", "pod", "pri", "s", "so",
   "u", "je", "li", "by"}

KNOWN_LOCATIONS ==
  {"kordon", "svalka", "agroprom", "nii agroprom", "podzemelqa agroproma",
   "bar", "bar 100 rentgen", "temnaa dolina", "twmnaa dolina",
   "laboratoria x-18", "x-18", "x18", "dikaa territoria", "rostok",
   "zavod rostok", "antarq", "x-16", "x16", "laboratoria x-16",
   "armeyskie sklady", "radar", "bunker upravlenia vyjigatelem mozgov",
   "laboratoria x-10", "x-10", "x10", "pripatq", "sarkofag", "caes",
   "stancia"}

\* SnowballStemmer("russian").stem(word) of the nltk library, reduced to what
\* the lore's word forms need: the word in lower case without its ending, a
\* final vowel of a word of more than three letters
Vowels == {"a", "e", "i", "o", "u", "y"}
Stem(word) ==
  LET w == Lower(word)
  IN IF Len(w) > 3 /\ Ch(w, Len(w)) \in Vowels THEN SubSeq(w, 1, Len(w) - 1) ELSE w

\* MorphAnalyzer().parse(t)[0].normal_form of the pymorphy2 library, reduced
\* in the same way: the prepositional case ending of a noun is dropped
NormalForm(t) ==
  LET w == Lower(t)
  IN IF Len(w) > 3 /\ Ch(w, Len(w)) = "e" THEN SubSeq(w, 1, Len(w) - 1) ELSE w

\* ''.join(c for c in text.lower() if c.isalnum() or c.isspace())
RECURSIVE KeepAlnumSpace(_, _)
KeepAlnumSpace(s, i) ==
  IF i > Len(s) THEN ""
  ELSE (IF IsAlnum(Ch(s, i)) \/ IsSpace(Ch(s, i)) THEN Ch(s, i) ELSE "")
       \o KeepAlnumSpace(s, i + 1)

\* get_stemmed_words that keeps the stop-words
StemmedWords_KeepStopWords(text, stemmer) ==
  LET clean_text == KeepAlnumSpace(Lower(text), 1)
      words == Range(Words(clean_text))
  IN IF ~stemmer THEN words ELSE {Stem(w) : w \in words}

\* lines 26-31: get_stemmed_words, for a stemmer that is there or not
StemmedWords(text, stemmer) ==
  LET clean_text == KeepAlnumSpace(Lower(text), 1)
      words == {w \in Range(Words(clean_text)) : w \notin STOP_WORDS}
  IN IF ~stemmer THEN words ELSE {Stem(w) : w \in words}

get_stemmed_words(text) == StemmedWords(text, STEMMER)

\* ''.join((c.lower() if (c.isalnum() or c.isspace()) else ' ') for c in text)
RECURSIVE PunctToSpace(_, _)
PunctToSpace(s, i) ==
  IF i > Len(s) THEN ""
  ELSE (IF IsAlnum(Ch(s, i)) \/ IsSpace(Ch(s, i)) THEN LowerCh(Ch(s, i)) ELSE " ")
       \o PunctToSpace(s, i + 1)

\* a tokenizer that keeps the stop-words
get_tokens_KeepStopWords(text) == Words(PunctToSpace(text, 1))

\* lines 148-151
get_tokens(text) ==
  SelectSeq(Words(PunctToSpace(text, 1)), LAMBDA w : w # "" /\ w \notin STOP_WORDS)

get_lemmas(text) ==
  LET tokens == get_tokens(text)
  IN IF ~MORPH THEN Range(tokens) ELSE {NormalForm(t) : t \in Range(tokens)}

\* lines 179-200: the names before the colon of every line of the character
\* file, split at , / ; | ( ), in lower case
NameSeparators == {",", "/", ";", "|", "(", ")"}
CharacterNames(content) ==
  UNION {
    LET names_part == Strip(Split(line, ":")[1])
    IN {Lower(Strip(raw_name)) :
          raw_name \in {r \in Range(SplitChars(names_part, NameSeparators, 1, "")) :
                          /\ Lower(Strip(r)) # ""
                          /\ ~StartsAt(Lower(Strip(r)), 1, "#")}}
    : line \in {l \in Range(Split(content, "\n")) : Contains(l, ":")}}

EXACT_IMPORTANT_LEMMAS ==
  {IF MORPH THEN NormalForm(exact) ELSE exact : exact \in EXACT_IMPORTANT_KEYWORDS}

\* line 220, for the two values STEMMER can have
StemmedLocationsFor ==
  [stemmer \in BOOLEAN |-> [loc \in KNOWN_LOCATIONS |-> StemmedWords(loc, stemmer)]]
STEMMED_LOCATIONS == StemmedLocationsFor[STEMMER]

LowerLocation == [loc \in KNOWN_LOCATIONS |-> Lower(loc)]

\* the words of the location names: the stems line 340 tests a query stem against
LocationWordsFor ==
  [stemmer \in BOOLEAN |-> UNION {StemmedLocationsFor[stemmer][loc] : loc \in KNOWN_LOCATIONS}]

(***************************************************************************)
(* lines 224-275: loading the chunks when the module is imported           *)
(***************************************************************************)
RECURSIVE LeadingSpaces(_)
LeadingSpaces(s) ==
  IF Len(s) > 0 /\ IsSpace(Ch(s, 1)) THEN 1 + LeadingSpaces(SubSeq(s, 2, Len(s))) ELSE 0

\* the separators of r'[:—-]'
TagSeparators == {":", "~", "-"}
TagKeyword == "lokacia"

\* group(1) of re.search(r'Локация\s*[:—-]?\s*(.+)', first_line, re.IGNORECASE)
\* for the text `rest` that follows the keyword (rest is not empty): both \s*
\* and the separator are greedy and give back what (.+) needs
TagGroup(rest) ==
  LET a == LeadingSpaces(rest)
  IN IF a < Len(rest) /\ Ch(rest, a + 1) \in TagSeparators
     THEN LET b == LeadingSpaces(SubSeq(rest, a + 2, Len(rest)))
          IN IF a + 1 + b < Len(rest) THEN SubSeq(rest, a + 2 + b, Len(rest))
             ELSE IF b > 0 THEN Ch(rest, Len(rest))
             ELSE Ch(rest, a + 1)
     ELSE IF a < Len(rest) THEN SubSeq(rest, a + 1, Len(rest))
     ELSE Ch(rest, Len(rest))

\* str.replace(old, '') for a one-character old
RECURSIVE RemoveChar(_, _, _)
RemoveChar(s, c, i) ==
  IF i > Len(s) THEN ""
  ELSE (IF Ch(s, i) = c THEN "" ELSE Ch(s, i)) \o RemoveChar(s, c, i + 1)

\* lines 240-246: the locations of the first line of an episode file
FileLocations(first_line) ==
  LET starts == {i \in 1..Len(first_line) :
                   /\ StartsAt(Lower(first_line), i, TagKeyword)
                   /\ i + Len(TagKeyword) <= Len(first_line)}
  IN IF starts = {} THEN {}
     ELSE LET i == CHOOSE k \in starts : \A j \in starts : k <= j
              group == TagGroup(SubSeq(first_line, i + Len(TagKeyword), Len(first_line)))
              location_names_str == Strip(RemoveChar(group, ".", 1))
          IN {Lower(Strip(name)) :
                name \in {n \in Range(Split(location_names_str, ",")) : Strip(n) # ""}}

\* lines 249-253 and 262-266: one chunk for every non-blank piece of
\* content.split('\n\n')
ChunksOf(source, content, chunk_locations) ==
  LET pieces == SelectSeq(Split(content, "\n\n"), LAMBDA chunk : Strip(chunk) # "")
  IN [i \in 1..Len(pieces) |->
        [source |-> source, content |-> Strip(pieces[i]),
         locations |-> chunk_locations, lemmas |-> get_lemmas(Strip(pieces[i]))]]

\* lines 234-255: the chunks of one episode file; the unpacking of
\* content.split('\n', 1) raises ValueError when the file has no newline, and
\* the except clause then drops the file
EpisodeFileChunks(file) ==
  IF ~Contains(file.content, "\n") THEN <<>>
  ELSE LET first_line == Split(file.content, "\n")[1]
       IN ChunksOf("episodes/" \o file.name, file.content, FileLocations(first_line))

\* lines 258-268
GeneralFileChunks(file) == ChunksOf(file.name, file.content, {})

RECURSIVE FlatMapEpisodes(_)
FlatMapEpisodes(files) ==
  IF Len(files) = 0 THEN <<>>
  ELSE EpisodeFileChunks(files[1]) \o FlatMapEpisodes(Tail(files))

RECURSIVE FlatMapGeneral(_)
FlatMapGeneral(files) ==
  IF Len(files) = 0 THEN <<>>
  ELSE GeneralFileChunks(files[1]) \o FlatMapGeneral(Tail(files))

\* lines 232-233: a missing lore or lore/episodes directory yields no episode
LoadedEpisodeChunks(dir) ==
  IF dir.root /\ dir.episodes_dir THEN FlatMapEpisodes(dir.episodes) ELSE <<>>

\* line 258: the glob of a missing lore directory yields no file
LoadedGeneralChunks(dir) ==
  IF dir.root THEN FlatMapGeneral(dir.general) ELSE <<>>

\* lines 181-198: the names of the character file of the Lore directory,
\* when there is one
LoadedExactKeywords(dir) ==
  IF dir.characters_file THEN CharacterNames(dir.characters) ELSE {}

(***************************************************************************)
(* lines 277-450: retrieve_relevant_lore                                   *)
(***************************************************************************)
\* a detection that runs both stages and asserts the names of either
QueryLocations_BothStages(query) ==
  {loc \in KNOWN_LOCATIONS : Contains(Lower(query), LowerLocation[loc])}
    \cup {loc \in KNOWN_LOCATIONS : STEMMED_LOCATIONS[loc] \subseteq get_stemmed_words(query)}

\* lines 298-311: exact substring hits, else the stem-subset hits
QueryLocations(query) ==
  LET query_lower == Lower(query)
      query_stems == get_stemmed_words(query)
      exact == {loc \in KNOWN_LOCATIONS : Contains(query_lower, LowerLocation[loc])}
  IN IF exact # {} THEN exact
     ELSE {loc \in KNOWN_LOCATIONS : STEMMED_LOCATIONS[loc] \subseteq query_stems}

\* a filter that takes a tag containing an asserted name for that name
TaggedWith_Substring(chunk_data, asserted) ==
  \E loc \in asserted :
    \E cl \in chunk_data.locations : Contains(Lower(cl), LowerLocation[loc])

\* line 322: the chunk has a tag equal to an asserted location
TaggedWith(chunk_data, asserted) ==
  \E loc \in asserted :
    LowerLocation[loc] \in {Lower(cl) : cl \in chunk_data.locations}

\* a candidate pool that does not fall back to the whole corpus
FilteredChunks_NoFallback(asserted) ==
  IF asserted # {}
  THEN SelectSeq(EPISODE_CHUNKS, LAMBDA c : TaggedWith(c, asserted))
  ELSE EPISODE_CHUNKS \o GENERAL_CHUNKS

\* lines 314-332: the candidate pool
FilteredChunks(asserted) ==
  LET by_location ==
        IF asserted # {}
        THEN SelectSeq(EPISODE_CHUNKS, LAMBDA c : TaggedWith(c, asserted))
        ELSE <<>>
  IN IF by_location # <<>> THEN by_location ELSE EPISODE_CHUNKS \o GENERAL_CHUNKS

\* keywords that keep the words of the location names
BaseKeywords_WithLocationWords(query) == get_stemmed_words(query)

\* lines 338-342: the query stems that are no word of a location name
BaseKeywords(query) ==
  {stem \in get_stemmed_words(query) : stem \notin LocationWordsFor[STEMMER]}

\* lines 354-371: names found by their stem or, without a stemmer, found as
\* a substring of the query or as one of its tokens
ExactStemMatches(query) ==
  IF STEMMER
  THEN {exact \in EXACT_IMPORTANT_KEYWORDS : Stem(exact) \in get_stemmed_words(query)}
  ELSE {exact \in EXACT_IMPORTANT_KEYWORDS :
          Contains(Lower(query), exact) \/ exact \in Range(get_tokens(query))}

\* lines 349, 373-375
ExactTokenMatches(query) ==
  {t \in Range(get_tokens(query)) : t \in EXACT_IMPORTANT_KEYWORDS}
    \cup ExactStemMatches(query)

\* line 350
ExactLemmaMatches(query) ==
  {l \in get_lemmas(query) : l \in EXACT_IMPORTANT_LEMMAS}

\* lines 338-342 and 380-381
QueryKeywords(query) ==
  BaseKeywords(query)
    \cup UNION {get_stemmed_words(name) :
                  name \in ExactTokenMatches(query) \cup ExactLemmaMatches(query)}

\* what lines 288-381 compute from the query, once for all the chunks
QueryContext(query) ==
  [query_locations |-> QueryLocations(query),
   query_keywords |-> QueryKeywords(query),
   exact_token_matches |-> ExactTokenMatches(query),
   exact_lemma_matches |-> ExactLemmaMatches(query)]

\* re.search(r"\b" + re.escape(exact) + r"\b", text): exact occurs in text
\* between two word boundaries
IsWordCh(s, i) == i >= 1 /\ i <= Len(s) /\ (IsAlnum(Ch(s, i)) \/ Ch(s, i) = "_")
WordBoundary(s, p) == IsWordCh(s, p - 1) # IsWordCh(s, p)
WholeWordSearch(exact, text) ==
  \E i \in 1..Len(text) :
    /\ StartsAt(text, i, exact)
    /\ WordBoundary(text, i)
    /\ WordBoundary(text, i + Len(exact))

\* str(chunk_data.get('locations', '')) of a set of names
RECURSIVE JoinQuoted(_)
JoinQuoted(names) ==
  LET n == CHOOSE e \in names : TRUE
  IN IF names = {n} THEN "'" \o n \o "'"
     ELSE "'" \o n \o "', " \o JoinQuoted(names \ {n})
StrOfSet(names) == IF names = {} THEN "set()" ELSE "{" \o JoinQuoted(names) \o "}"

\* keyword weights that fall with the length of the stem
RECURSIVE SumWeights_Falling(_)
SumWeights_Falling(stems) ==
  IF stems = {} THEN 0
  ELSE LET stem == CHOOSE e \in stems : TRUE
       IN (2 - Len(stem)) + SumWeights_Falling(stems \ {stem})

\* line 389: sum(2 + len(stem) for stem in matched_keywords)
RECURSIVE SumWeights(_)
SumWeights(stems) ==
  IF stems = {} THEN 0
  ELSE LET stem == CHOOSE e \in stems : TRUE
       IN (2 + Len(stem)) + SumWeights(stems \ {stem})

\* lines 385-388
MatchedKeywords(chunk_data, ctx) ==
  ctx.query_keywords \cap get_stemmed_words(chunk_data.content)

\* lines 392-402: 20 for every exact name found as a whole word of the chunk,
\* 20 for every exact lemma among the chunk's lemmas
EXACT_BONUS == 20
ExactBonus(chunk_data, ctx) ==
  LET lc_chunk == Lower(chunk_data.content)
  IN EXACT_BONUS * Cardinality({exact \in ctx.exact_token_matches :
                                  WholeWordSearch(exact, lc_chunk)})
     + EXACT_BONUS * Cardinality(ctx.exact_lemma_matches \cap chunk_data.lemmas)

\* line 406: an asserted location occurs in the text of str(locations)
LOCATION_BONUS == 10
LocationBonusApplies(chunk_data, ctx) ==
  \E loc \in ctx.query_locations :
    Contains(Lower(StrOfSet(chunk_data.locations)), LowerLocation[loc])

\* lines 389-407: the keyword weights and the additive bonuses
AdditiveScore(chunk_data, ctx) ==
  SumWeights(MatchedKeywords(chunk_data, ctx))
    + ExactBonus(chunk_data, ctx)
    + (IF LocationBonusApplies(chunk_data, ctx) THEN LOCATION_BONUS ELSE 0)

\* line 414: chunk_data in EPISODE_CHUNKS compares the dictionaries
InEpisodeChunks(chunk_data) ==
  \E i \in 1..Len(EPISODE_CHUNKS) : EPISODE_CHUNKS[i] = chunk_data

\* lines 410-415.  The score is a rational number; it is kept as the integer
\* score * ScoreScale: with n query keywords and m of them matched,
\* score = additive * (1 + m / n) * (1.2 for an episode), so that
\* score * 5 * n = additive * (n + m) * (6 for an episode, else 5);
\* with no query keyword the coverage is 0 and n stands for 1
EPISODE_NUM == 6
EPISODE_DEN == 5
ScoreScale(ctx) ==
  EPISODE_DEN * (IF ctx.query_keywords = {} THEN 1 ELSE Cardinality(ctx.query_keywords))
CoverageFactor(chunk_data, ctx) ==
  IF ctx.query_keywords = {} THEN 1
  ELSE Cardinality(ctx.query_keywords) + Cardinality(MatchedKeywords(chunk_data, ctx))
\* the episode multiplier given to every chunk
PriorityFactor_Every(chunk_data) == EPISODE_NUM

PriorityFactor(chunk_data) ==
  IF InEpisodeChunks(chunk_data) THEN EPISODE_NUM ELSE EPISODE_DEN
Score(chunk_data, ctx) ==
  AdditiveScore(chunk_data, ctx) * CoverageFactor(chunk_data, ctx)
    * PriorityFactor(chunk_data)

\* lines 418-426
LogEntry(chunk_data, ctx) ==
  [score |-> Score(chunk_data, ctx), content |-> chunk_data.content,
   source |-> chunk_data.source,
   matched_keywords |-> MatchedKeywords(chunk_data, ctx),
   locations |-> chunk_data.locations]

\* lines 383-426: the entries of the candidates that score above 0
RECURSIVE ScoredEntries(_, _)
ScoredEntries(chunks, ctx) ==
  IF Len(chunks) = 0 THEN <<>>
  ELSE LET entry == LogEntry(chunks[1], ctx)
       IN (IF entry.score > 0 THEN <<entry>> ELSE <<>>)
          \o ScoredEntries(Tail(chunks), ctx)

\* a sort without reverse=True: the lowest score first
RECURSIVE InsertDesc_Ascending(_, _)
InsertDesc_Ascending(sorted, e) ==
  IF Len(sorted) = 0 THEN <<e>>
  ELSE IF sorted[1].score <= e.score
       THEN <<sorted[1]>> \o InsertDesc_Ascending(Tail(sorted), e)
  ELSE <<e>> \o sorted

\* a sort that puts an entry before the entries of equal score met earlier
RECURSIVE InsertDesc_LastFirst(_, _)
InsertDesc_LastFirst(sorted, e) ==
  IF Len(sorted) = 0 THEN <<e>>
  ELSE IF sorted[1].score > e.score
       THEN <<sorted[1]>> \o InsertDesc_LastFirst(Tail(sorted), e)
  ELSE <<e>> \o sorted

\* line 434: list.sort(key=score, reverse=True) is stable: entries of equal
\* score keep their order
RECURSIVE InsertDesc(_, _)
InsertDesc(sorted, e) ==
  IF Len(sorted) = 0 THEN <<e>>
  ELSE IF sorted[1].score >= e.score THEN <<sorted[1]>> \o InsertDesc(Tail(sorted), e)
  ELSE <<e>> \o sorted
RECURSIVE SortDesc(_, _)
SortDesc(entries, acc) ==
  IF Len(entries) = 0 THEN acc
  ELSE SortDesc(Tail(entries), InsertDesc(acc, entries[1]))

\* a selection that keeps every scored chunk
TopChunks_All(sorted) == sorted

\* line 437: scored_chunks[:1]
TOP_K == 1
TopChunks(sorted) == SubSeq(sorted, 1, IF Len(sorted) < TOP_K THEN Len(sorted) ELSE TOP_K)

\* line 447
Separator == "\n\n---\n\n"

\* lines 431 and 440: return "", 0
NoContext == [context |-> "", count |-> 0]

\* an early return that reports the missing lore in the context
EarlyReturn_Message == [context |-> "Lor ne najden.", count |-> 0]

\* lines 285 and 291: return "", 0 before any chunk is looked at
EarlyReturn == [context |-> "", count |-> 0]

\* lines 429-450
Selected(sorted) ==
  LET top_chunks == TopChunks(sorted)
  IN IF sorted = <<>> \/ top_chunks = <<>> THEN NoContext
     ELSE [context |-> Join([i \in 1..Len(top_chunks) |-> top_chunks[i].content],
                            Separator),
           count |-> Len(top_chunks)]

\* line 410: len(matched_keywords) / len(query_keywords) is evaluated only
\* when query_keywords is not empty, and raises ZeroDivisionError when the
\* divisor is 0; it is evaluated once for every chunk of the pool
DivisionEvaluated_Always(ctx) == TRUE
DivisionEvaluated(ctx) == ctx.query_keywords # {}
ZeroDivision(pool, ctx) ==
  /\ pool # <<>>
  /\ DivisionEvaluated(ctx)
  /\ Cardinality(ctx.query_keywords) = 0

\* a call whose fallback pool is the episode list itself, extended in place
\* with the general chunks
retrieve_relevant_lore_InPlace(query) ==
  /\ pc = "ready"
  /\ pc' = "returned"
  /\ user_query' = query
  /\ IF (EPISODE_CHUNKS = <<>> /\ GENERAL_CHUNKS = <<>>) \/ get_stemmed_words(query) = {}
     THEN /\ query_locations' = {}
          /\ filtered_chunks' = <<>>
          /\ scored_chunks' = <<>>
          /\ result' = EarlyReturn
          /\ UNCHANGED EPISODE_CHUNKS
     ELSE LET ctx == QueryContext(query)
              pool == FilteredChunks(ctx.query_locations)
              sorted == SortDesc(ScoredEntries(pool, ctx), <<>>)
          IN /\ query_locations' = ctx.query_locations
             /\ filtered_chunks' = pool
             /\ scored_chunks' = sorted
             /\ result' = Selected(sorted)
             /\ EPISODE_CHUNKS' = IF pool = EPISODE_CHUNKS \o GENERAL_CHUNKS
                                  THEN pool ELSE EPISODE_CHUNKS
  /\ UNCHANGED <<fs, STEMMER, MORPH, EXACT_IMPORTANT_KEYWORDS, GENERAL_CHUNKS>>
  /\ UNCHANGED outsideAi

\* the whole call: it returns a pair, or an exception leaves it ("raised")
retrieve_relevant_lore(query) ==
  /\ pc = "ready"
  /\ user_query' = query
  /\ IF EPISODE_CHUNKS = <<>> /\ GENERAL_CHUNKS = <<>>
     THEN /\ pc' = "returned"
          /\ query_locations' = {}
          /\ filtered_chunks' = <<>>
          /\ scored_chunks' = <<>>
          /\ result' = EarlyReturn
     ELSE IF get_stemmed_words(query) = {}
     THEN /\ pc' = "returned"
          /\ query_locations' = {}
          /\ filtered_chunks' = <<>>
          /\ scored_chunks' = <<>>
          /\ result' = EarlyReturn
     ELSE LET ctx == QueryContext(query)
              pool == FilteredChunks(ctx.query_locations)
              sorted == SortDesc(ScoredEntries(pool, ctx), <<>>)
          IN IF ZeroDivision(pool, ctx)
             THEN /\ pc' = "raised"
                  /\ query_locations' = ctx.query_locations
                  /\ filtered_chunks' = pool
                  /\ scored_chunks' = <<>>
                  /\ result' = NoContext
             ELSE /\ pc' = "returned"
                  /\ query_locations' = ctx.query_locations
                  /\ filtered_chunks' = pool
                  /\ scored_chunks' = sorted
                  /\ result' = Selected(sorted)
  /\ UNCHANGED <<fs, STEMMER, MORPH, EXACT_IMPORTANT_KEYWORDS,
                 EPISODE_CHUNKS, GENERAL_CHUNKS>>
  /\ UNCHANGED outsideAi

\* the caller has taken the pair: the locals of the call are gone, the
\* module is as it was before the call
Return ==
  /\ pc = "returned"
  /\ pc' = "ready"
  /\ user_query' = ""
  /\ query_locations' = {}
  /\ filtered_chunks' = <<>>
  /\ scored_chunks' = <<>>
  /\ result' = NoContext
  /\ UNCHANGED <<fs, STEMMER, MORPH, EXACT_IMPORTANT_KEYWORDS,
                 EPISODE_CHUNKS, GENERAL_CHUNKS>>
  /\ UNCHANGED outsideAi

(***************************************************************************)
(* services/lore_structure.py: LoreStructure                               *)
(***************************************************************************)
\* a dict with no key
EmptyDict == [k \in {} |-> ""]

\* None; a record of the structure has a positive id, which stands for the
\* identity of the object: the n-th object the parser created has id n
None == [id |-> 0]

\* the text of s after its last newline
RECURSIVE LastLine(_)
LastLine(s) ==
  LET p == Find(s, "\n", 1)
  IN IF p = 0 THEN s ELSE LastLine(SubSeq(s, p + 1, Len(s)))

\* lines 181-199 and 231-249: the blocks "header { content }" of the file, in
\* the order the loop meets them
RECURSIVE BlocksFrom(_, _)
BlocksFrom(content, current_pos) ==
  IF current_pos > Len(content) THEN <<>>
  ELSE LET brace_pos == Find(content, "{", current_pos)
           close_brace == IF brace_pos = 0 THEN 0 ELSE Find(content, "}", brace_pos)
       IN IF brace_pos = 0 \/ close_brace = 0 THEN <<>>
          ELSE <<[block_header |-> Strip(LastLine(SubSeq(content, 1, brace_pos - 1))),
                  block_content |-> Strip(SubSeq(content, brace_pos + 1, close_brace - 1))]>>
               \o BlocksFrom(content, close_brace + 1)
Blocks(content) == BlocksFrom(content, 1)

\* lines 204-219: the entries of a block, the runs of non-blank lines
RECURSIVE EntriesFrom(_, _)
EntriesFrom(raw_lines, current_char_lines) ==
  IF Len(raw_lines) = 0
  THEN (IF current_char_lines # <<>> THEN <<Join(current_char_lines, "\n")>> ELSE <<>>)
  ELSE LET line == Strip(raw_lines[1])
       IN IF line = ""
          THEN (IF current_char_lines # <<>>
                THEN <<Join(current_char_lines, "\n")>> ELSE <<>>)
               \o EntriesFrom(Tail(raw_lines), <<>>)
          ELSE EntriesFrom(Tail(raw_lines), Append(current_char_lines, line))
BlockEntries(block_content) == EntriesFrom(Split(block_content, "\n"), <<>>)

\* every entry of the file, in the order phase 1 parses them
RECURSIVE EntriesOfBlocks(_)
EntriesOfBlocks(blocks) ==
  IF Len(blocks) = 0 THEN <<>>
  ELSE BlockEntries(blocks[1].block_content) \o EntriesOfBlocks(Tail(blocks))
CharacterEntries(content) == EntriesOfBlocks(Blocks(content))

\* lines 305-308: the names before the first colon
EntryRawNames(text) ==
  SelectSeq([i \in 1..Len(Split(Split(text, ":")[1], ",")) |->
               Strip(Split(Split(text, ":")[1], ",")[i])],
            LAMBDA n : n # "")

\* lines 319-330: the relationship clause of a description,
\* r'(?:отношение|Отношение)\s+(?:пончика|Пончика)\s*(?::|-|—)\s*([^,.\n]+)'
\* with re.IGNORECASE.  RelationAt is <<i, first, last>>, the place of group 1
\* of a match that starts at i, <<0, 0, 0>> when there is none
RelationWord == "otnosenie"
RelationOwner == "poncika"
RelationSeparators == {":", "-", "~"}
RelationStops == {",", ".", "\n"}
RECURSIVE RunEnd(_, _)
RunEnd(s, i) ==
  IF i + 1 <= Len(s) /\ Ch(s, i + 1) \notin RelationStops THEN RunEnd(s, i + 1) ELSE i
SkipSpaces(d, i) == i + LeadingSpaces(SubSeq(d, i, Len(d)))
\* ([^,.\n]+) after \s*: the group starts as late as the whitespace lets it,
\* between lo and hi, and runs to the next stop
RelationGroup(d, i, lo, hi) ==
  LET starts == {j \in lo..hi : j <= Len(d) /\ Ch(d, j) \notin RelationStops}
  IN IF starts = {} THEN <<0, 0, 0>>
     ELSE <<i, CHOOSE k \in starts : \A m \in starts : m <= k,
            RunEnd(d, CHOOSE k \in starts : \A m \in starts : m <= k)>>
\* (?::|-|—)\s* at sep
RelationSeparator(d, i, sep) ==
  IF sep <= Len(d) /\ Ch(d, sep) \in RelationSeparators
  THEN RelationGroup(d, i, sep + 1, SkipSpaces(d, sep + 1))
  ELSE <<0, 0, 0>>
\* (?:пончика|Пончика)\s* at b
RelationOwnerAt(d, i, b) ==
  IF StartsAt(Lower(d), b, RelationOwner)
  THEN RelationSeparator(d, i, SkipSpaces(d, b + Len(RelationOwner)))
  ELSE <<0, 0, 0>>
\* (?:отношение|Отношение)\s+ at i
RelationAt(d, i) ==
  IF /\ StartsAt(Lower(d), i, RelationWord)
     /\ SkipSpaces(d, i + Len(RelationWord)) > i + Len(RelationWord)
  THEN RelationOwnerAt(d, i, SkipSpaces(d, i + Len(RelationWord)))
  ELSE <<0, 0, 0>>
\* re.search: the first match at or after position from
FirstRelation(d, from) ==
  LET hits == {i \in from..Len(d) : RelationAt(d, i)[1] # 0}
  IN IF hits = {} THEN <<0, 0, 0>>
     ELSE RelationAt(d, CHOOSE k \in hits : \A m \in hits : k <= m)
\* re.sub(pattern, '', description) after the match m
RECURSIVE RemoveRelations(_, _, _)
RemoveRelations(d, from, m) ==
  IF m[1] = 0 THEN SubSeq(d, from, Len(d))
  ELSE SubSeq(d, from, m[1] - 1)
         \o RemoveRelations(d, m[3] + 1, FirstRelation(d, m[3] + 1))

\* lines 317-337: the Character of a record
NewCharacter(id, canonical_name, aliases, description, rel_match) ==
  [id |-> id,
   name |-> canonical_name,
   aliases |-> aliases,
   description |->
     IF rel_match[1] # 0 THEN Strip(RemoveRelations(description, 1, rel_match))
     ELSE description,
   relationship |->
     IF rel_match[1] # 0
     THEN RStripChars(Strip(SubSeq(description, rel_match[2], rel_match[3])), {".", ","})
     ELSE ""]

\* an index that keeps the entry a name already has
IndexCharacter_FirstWins(st, canonical_key, character) ==
  [created |-> character.id,
   characters |-> (canonical_key :> character) @@ st.characters,
   index |-> st.index
               @@ [a \in character.aliases \cup {canonical_key} |-> canonical_key]]

\* lines 339-344: the record is stored under its key, and the key and every
\* alias are pointed at it
IndexCharacter(st, canonical_key, character) ==
  [created |-> character.id,
   characters |-> (canonical_key :> character) @@ st.characters,
   index |-> [a \in character.aliases \cup {canonical_key} |-> canonical_key]
               @@ st.index]

\* lines 313-337
CharacterOf(id, raw_names, description) ==
  NewCharacter(id, Title(raw_names[1]),
               {Lower(raw_names[i]) : i \in 2..Len(raw_names)},
               description, FirstRelation(description, 1))

\* line 317: description_full.strip().rstrip('.')
EntryDescription(text) ==
  RStripChars(Strip(SubSeq(text, Find(text, ":", 1) + 1, Len(text))), {"."})

\* lines 298-346: _parse_character_entry on the structure st
ParseCharacterEntry(st, text) ==
  IF ~Contains(text, ":") THEN st
  ELSE IF EntryRawNames(text) = <<>> THEN st
  ELSE IndexCharacter(st, Lower(Title(EntryRawNames(text)[1])),
                      CharacterOf(st.created + 1, EntryRawNames(text),
                                  EntryDescription(text)))

\* a load that gives the file up at the first record it cannot parse
RECURSIVE ParseCharacterEntries_GiveUp(_, _)
ParseCharacterEntries_GiveUp(st, entries) ==
  IF Len(entries) = 0 THEN st
  ELSE IF ParseCharacterEntry(st, entries[1]) = st THEN st
  ELSE ParseCharacterEntries_GiveUp(ParseCharacterEntry(st, entries[1]), Tail(entries))

RECURSIVE ParseCharacterEntries(_, _)
ParseCharacterEntries(st, entries) ==
  IF Len(entries) = 0 THEN st
  ELSE ParseCharacterEntries(ParseCharacterEntry(st, entries[1]), Tail(entries))

\* lines 251-260: the relationship a block header stands for, "" for None
HeaderRelation(block_header) ==
  LET h == Lower(block_header)
  IN IF Contains(h, "ne znakom") THEN "ne znakom"
     ELSE IF Contains(h, "vrag") THEN "vrazdebnoe"
     ELSE IF Contains(h, "drug") THEN "druzelubnoe"
     ELSE IF Contains(h, "utub") /\ Contains(h, "nejtral") THEN "nejtralnoe"
     ELSE ""

\* dict.get(key), "" for None
Get(dict, key) == IF key \in DOMAIN dict THEN dict[key] ELSE ""

\* lines 269-273: the names listed in a block, line by line
RECURSIVE NamesOfLines(_)
NamesOfLines(lines) ==
  IF Len(lines) = 0 THEN <<>>
  ELSE (IF Strip(lines[1]) = "" THEN <<>>
        ELSE LET line == RStripChars(Strip(lines[1]), {".", ",", ";"})
                 raw_names == Split(line, ",")
             IN [i \in 1..Len(raw_names) |-> Strip(raw_names[i])])
       \o NamesOfLines(Tail(lines))
ListedNames(block_content) == NamesOfLines(Split(block_content, "\n"))

\* lines 275-291: one listed name sets the relationship of the character it
\* resolves to, by the full name or else by its first word
SetRelationship(st, raw_name, relation) ==
  IF raw_name = "" THEN st
  ELSE LET name_lower == Lower(raw_name)
           by_name == Get(st.index, name_lower)
           canonical_key ==
             IF by_name # "" THEN by_name ELSE Get(st.index, Words(name_lower)[1])
       IN IF canonical_key # "" /\ canonical_key \in DOMAIN st.characters
          THEN [st EXCEPT !.characters[canonical_key].relationship = relation]
          ELSE st

RECURSIVE SetRelationships(_, _, _)
SetRelationships(st, names, relation) ==
  IF Len(names) = 0 THEN st
  ELSE SetRelationships(SetRelationship(st, names[1], relation), Tail(names), relation)

\* lines 228-296: phase 2 over the blocks of the file
RECURSIVE RelationshipSections(_, _)
RelationshipSections(st, blocks) ==
  IF Len(blocks) = 0 THEN st
  ELSE LET relation == HeaderRelation(blocks[1].block_header)
       IN RelationshipSections(
            IF relation = "" THEN st
            ELSE SetRelationships(st, ListedNames(blocks[1].block_content), relation),
            Tail(blocks))

\* lines 173-296: _load_characters
LoadCharacters(st, content) ==
  RelationshipSections(ParseCharacterEntries(st, CharacterEntries(content)),
                       Blocks(content))

\* line 366: the separators a first line must hold one of; line 371: the class
\* r'[-–—:]' the name part ends at ("=" stands for the en dash)
LocationMarks == {"~", "-", ":"}
LocationNameEnds == {"-", "=", "~", ":"}
\* line 373: the class r'[,/;|()]' between the names
LocationNameSeparators == {",", "/", ";", "|", "(", ")"}

\* lines 371-373: loc_parts of a first line
LocParts(first_line) ==
  LET name_part == Strip(SplitChars(first_line, LocationNameEnds, 1, "")[1])
      pieces == SplitChars(name_part, LocationNameSeparators, 1, "")
  IN SelectSeq([i \in 1..Len(pieces) |-> Lower(Strip(pieces[i]))],
               LAMBDA n : n # "")

\* lines 356-400: one section of the locations file
ParseLocationSection(st, section) ==
  IF Strip(section) = "" THEN st
  ELSE
    LET lines == Split(Strip(section), "\n")
        first_line == lines[1]
    IN IF first_line = "" \/ ~\E c \in LocationMarks : Contains(first_line, c) THEN st
       ELSE
         LET loc_parts == LocParts(first_line)
         IN IF loc_parts = <<>> THEN st
            ELSE
              LET canonical_name == Title(loc_parts[1])
                  aliases == {loc_parts[i] : i \in 2..Len(loc_parts)}
                  colon == Find(first_line, ":", 1)
                  head == IF colon # 0
                          THEN Strip(SubSeq(first_line, colon + 1, Len(first_line)))
                          ELSE ""
                  rest_text == Strip(Join(Tail(lines), "\n"))
                  location ==
                    [id |-> st.created + 1,
                     name |-> canonical_name,
                     aliases |-> aliases,
                     description |->
                       IF rest_text # "" THEN Strip(head \o " " \o rest_text) ELSE head]
                  canonical_key == Lower(canonical_name)
              IN [created |-> st.created + 1,
                  locations |-> (canonical_key :> location) @@ st.locations,
                  index |-> [a \in aliases \cup {canonical_key} |-> canonical_key]
                              @@ st.index]

RECURSIVE ParseLocationSections(_, _)
ParseLocationSections(st, sections) ==
  IF Len(sections) = 0 THEN st
  ELSE ParseLocationSections(ParseLocationSection(st, sections[1]), Tail(sections))

\* lines 348-406: _load_locations
LoadLocations(st, content) == ParseLocationSections(st, Split(content, "\n\n"))

\* lines 416-449: one section of the anomalies file; the aliases are kept in
\* the record and in no index
ParseAnomalySection(st, section) ==
  IF Strip(section) = "" THEN st
  ELSE
    LET lines == Split(Strip(section), "\n")
        first_line == lines[1]
    IN IF first_line = "" \/ ~\E c \in LocationMarks : Contains(first_line, c) THEN st
       ELSE
         LET names == LocParts(first_line)
         IN IF names = <<>> THEN st
            ELSE
              LET canonical_name == Title(names[1])
                  colon == Find(first_line, ":", 1)
                  head == IF colon # 0
                          THEN Strip(SubSeq(first_line, colon + 1, Len(first_line)))
                          ELSE ""
                  rest_text == Strip(Join(Tail(lines), "\n"))
                  anomaly ==
                    [id |-> st.created + 1,
                     name |-> canonical_name,
                     aliases |-> {names[i] : i \in 2..Len(names)},
                     description |->
                       IF rest_text # "" THEN Strip(head \o " " \o rest_text) ELSE head]
              IN [created |-> st.created + 1,
                  anomalies |-> (Lower(canonical_name) :> anomaly) @@ st.anomalies]

RECURSIVE ParseAnomalySections(_, _)
ParseAnomalySections(st, sections) ==
  IF Len(sections) = 0 THEN st
  ELSE ParseAnomalySections(ParseAnomalySection(st, sections[1]), Tail(sections))

\* lines 408-454: _load_anomalies
LoadAnomalies(st, content) == ParseAnomalySections(st, Split(content, "\n\n"))

\* lines 464-497: one section of the mutants file
ParseMutantSection(st, section) ==
  IF Strip(section) = "" THEN st
  ELSE
    LET lines == Split(Strip(section), "\n")
        first_line == lines[1]
    IN IF first_line = "" \/ ~\E c \in LocationMarks : Contains(first_line, c) THEN st
       ELSE
         LET names == LocParts(first_line)
         IN IF names = <<>> THEN st
            ELSE
              LET canonical_name == Title(names[1])
                  colon == Find(first_line, ":", 1)
                  head == IF colon # 0
                          THEN Strip(SubSeq(first_line, colon + 1, Len(first_line)))
                          ELSE ""
                  rest_text == Strip(Join(Tail(lines), "\n"))
                  mutant ==
                    [id |-> st.created + 1,
                     name |-> canonical_name,
                     aliases |-> {names[i] : i \in 2..Len(names)},
                     description |->
                       IF rest_text # "" THEN Strip(head \o " " \o rest_text) ELSE head]
              IN [created |-> st.created + 1,
                  mutants |-> (Lower(canonical_name) :> mutant) @@ st.mutants]

RECURSIVE ParseMutantSections(_, _)
ParseMutantSections(st, sections) ==
  IF Len(sections) = 0 THEN st
  ELSE ParseMutantSections(ParseMutantSection(st, sections[1]), Tail(sections))

\* lines 456-502: _load_mutants
LoadMutants(st, content) == ParseMutantSections(st, Split(content, "\n\n"))

\* lines 106-119: the structure __init__ builds before _load_lore
NoAnomalies == [created |-> 0, anomalies |-> EmptyDict]
NoMutants == [created |-> 0, mutants |-> EmptyDict]
NoCharacters == [created |-> 0, characters |-> EmptyDict, index |-> EmptyDict]
NoLocations == [created |-> 0, locations |-> EmptyDict, index |-> EmptyDict]

\* lines 121-141: _load_lore, the characters file and the locations file
LoadedCharacters(dir) ==
  IF dir.lore_dir /\ dir.characters_file
  THEN LoadCharacters(NoCharacters, dir.characters) ELSE NoCharacters
LoadedLocations(dir) ==
  IF dir.lore_dir /\ dir.locations_file
  THEN LoadLocations([NoLocations EXCEPT !.created = LoadedCharacters(dir).created],
                     dir.locations)
  ELSE [NoLocations EXCEPT !.created = LoadedCharacters(dir).created]

\* lines 142-150: _load_lore, the anomalies file and the mutants file
LoadedAnomalies(dir) ==
  IF dir.lore_dir /\ dir.anomalies_file
  THEN LoadAnomalies([NoAnomalies EXCEPT !.created = LoadedLocations(dir).created],
                     dir.anomalies)
  ELSE [NoAnomalies EXCEPT !.created = LoadedLocations(dir).created]
LoadedMutants(dir) ==
  IF dir.lore_dir /\ dir.mutants_file
  THEN LoadMutants([NoMutants EXCEPT !.created = LoadedAnomalies(dir).created],
                   dir.mutants)
  ELSE [NoMutants EXCEPT !.created = LoadedAnomalies(dir).created]

\* what a find_* call leaves alone: everything __init__ built
loreData == <<lore_fs, characters, char_aliases_index, locations, loc_aliases_index,
              anomalies, mutants>>

\* lines 106-119: LoreStructure()
LoreStructure ==
  /\ lpc = "new"
  /\ lpc' = "loaded"
  /\ characters' = LoadedCharacters(lore_fs).characters
  /\ char_aliases_index' = LoadedCharacters(lore_fs).index
  /\ locations' = LoadedLocations(lore_fs).locations
  /\ loc_aliases_index' = LoadedLocations(lore_fs).index
  /\ anomalies' = LoadedAnomalies(lore_fs).anomalies
  /\ mutants' = LoadedMutants(lore_fs).mutants
  /\ UNCHANGED <<lore_fs, find_name, found>>
  /\ UNCHANGED outsideLore

\* a lookup that does not fold the case of the name
FindCharacter_CaseSensitive(name) ==
  LET key == Get(char_aliases_index, Strip(name))
  IN IF key # "" THEN (IF key \in DOMAIN characters THEN characters[key] ELSE None)
     ELSE None

\* lines 609-615: find_character(name)
FindCharacter(name) ==
  LET key == Get(char_aliases_index, Strip(Lower(name)))
  IN IF key # "" THEN (IF key \in DOMAIN characters THEN characters[key] ELSE None)
     ELSE None
find_character(name) ==
  /\ lpc = "loaded"
  /\ lpc' = "found_character"
  /\ find_name' = name
  /\ found' = FindCharacter(name)
  /\ UNCHANGED loreData
  /\ UNCHANGED outsideLore

\* lines 617-623: find_location(name)
FindLocation(name) ==
  LET key == Get(loc_aliases_index, Strip(Lower(name)))
  IN IF key # "" THEN (IF key \in DOMAIN locations THEN locations[key] ELSE None)
     ELSE None
find_location(name) ==
  /\ lpc = "loaded"
  /\ lpc' = "found_location"
  /\ find_name' = name
  /\ found' = FindLocation(name)
  /\ UNCHANGED loreData
  /\ UNCHANGED outsideLore

\* lines 625-628: find_anomaly(name)
FindAnomaly(name) ==
  LET name_lower == Strip(Lower(name))
  IN IF name_lower \in DOMAIN anomalies THEN anomalies[name_lower] ELSE None
find_anomaly(name) ==
  /\ lpc = "loaded"
  /\ lpc' = "found_anomaly"
  /\ find_name' = name
  /\ found' = FindAnomaly(name)
  /\ UNCHANGED loreData
  /\ UNCHANGED outsideLore

\* lines 630-633: find_mutant(name)
FindMutant(name) ==
  LET name_lower == Strip(Lower(name))
  IN IF name_lower \in DOMAIN mutants THEN mutants[name_lower] ELSE None
find_mutant(name) ==
  /\ lpc = "loaded"
  /\ lpc' = "found_mutant"
  /\ find_name' = name
  /\ found' = FindMutant(name)
  /\ UNCHANGED loreData
  /\ UNCHANGED outsideLore

\* the caller takes the result
FindReturn ==
  /\ lpc \in {"found_character", "found_location", "found_anomaly", "found_mutant"}
  /\ lpc' = "loaded"
  /\ find_name' = ""
  /\ found' = None
  /\ UNCHANGED loreData
  /\ UNCHANGED outsideLore

(***************************************************************************)
(* The lore directories and the queries the model is run over              *)
(***************************************************************************)
MaxEpisodeFiles == 1
MaxGeneralFiles == 1

File(name, content) == [name |-> name, content |-> content]

EpisodeFilePool ==
  {File("kordon1.txt", "Lokacia: Kordon\nNa Kordone tiho."),
   File("kordon2.txt", "Lokacia: Kordon\n\nNa Kordone tiho."),
   File("bar.txt", "LOKACIA ~ Bar 100 rentgen.\nV bare sumno, Fura poet.\n\nV bare sumno, Fura poet. tiho"),
   File("intro.txt", "Vstuplenie\n\nZona polna opasnostej.\n\nMnogo opasnostej."),
   File("odna.txt", "Zona polna opasnostej.")}

GeneralFilePool ==
  {File("zona.txt", "Zona polna opasnostej."),
   File("mesta.txt", "Kordon - tihoe mesto.\n\nZona, tiho.\n\nZona, tiho. opasnostej"),
   File("svalka.txt", "Na Svalke opasno i tiho.\n\n\n\nFura edet v bar.")}

CharacterFilePool ==
  {"Torgovcy {\nFura, Furyc: voditel. Otnosenie Poncika - druzeskoe.\n}",
   "# zametki: net\nTiho/Zona: prozvisa"}

\* the lists without repetition of at most n files of a pool, in any order
RECURSIVE Lists(_, _)
Lists(pool, n) ==
  IF n = 0 THEN {<<>>}
  ELSE {<<>>} \cup UNION {{<<f>> \o l : l \in Lists(pool \ {f}, n - 1)} : f \in pool}

NoLoreDir ==
  [root |-> FALSE, episodes_dir |-> FALSE, episodes |-> <<>>, general |-> <<>>,
   characters_file |-> FALSE, characters |-> ""]

\* directories with two episode files of different tags
EpisodePairs ==
  {<<File("kordon1.txt", "Lokacia: Kordon\nNa Kordone tiho."),
     File("bar.txt", "LOKACIA ~ Bar 100 rentgen.\nV bare sumno, Fura poet.\n\nV bare sumno, Fura poet. tiho")>>,
   <<File("bar.txt", "LOKACIA ~ Bar 100 rentgen.\nV bare sumno, Fura poet.\n\nV bare sumno, Fura poet. tiho"),
     File("bar2.txt", "Lokacia: Bar, Svalka.\nV bare tiho.\n\nNa Svalke sumno.")>>}
TaggedEpisodeDirs ==
  {[root |-> TRUE, episodes_dir |-> TRUE, episodes |-> e,
    general |-> <<File("mesta.txt", "Kordon - tihoe mesto.\n\nZona, tiho.\n\nZona, tiho. opasnostej")>>,
    characters_file |-> FALSE, characters |-> ""] : e \in EpisodePairs}

LoreDirs ==
  {NoLoreDir}
    \cup TaggedEpisodeDirs
    \cup {[root |-> TRUE, episodes_dir |-> FALSE, episodes |-> <<>>, general |-> g,
           characters_file |-> FALSE, characters |-> ""] :
            g \in Lists(GeneralFilePool, MaxGeneralFiles)}
    \cup {[root |-> TRUE, episodes_dir |-> TRUE, episodes |-> e, general |-> g,
           characters_file |-> FALSE, characters |-> ""] :
            e \in Lists(EpisodeFilePool, MaxEpisodeFiles),
            g \in Lists(GeneralFilePool, MaxGeneralFiles)}
    \cup {[root |-> TRUE, episodes_dir |-> TRUE, episodes |-> e, general |-> g,
           characters_file |-> TRUE, characters |-> c] :
            e \in Lists(EpisodeFilePool, 1),
            g \in Lists(GeneralFilePool, 1),
            c \in CharacterFilePool}

Queries ==
  {"", " \n\t ", "?!", "i na u", "I, na - U!",
   "rasskazi pro Kordon", "kordon", "na kordone", "zona", "tiho",
   "bar", "V bare, tiho!", "fura", "pro furu", "opasnostej tiho zona",
   "x-18", "svalka opasno", "na svalke"}

(***************************************************************************)
(* The module as a state machine: the import, then any number of calls     *)
(***************************************************************************)
AiInit ==
  /\ fs \in LoreDirs
  /\ pc = "start"
  /\ STEMMER \in BOOLEAN
  /\ MORPH \in BOOLEAN
  /\ EXACT_IMPORTANT_KEYWORDS = {}
  /\ EPISODE_CHUNKS = <<>>
  /\ GENERAL_CHUNKS = <<>>
  /\ user_query = ""
  /\ query_locations = {}
  /\ filtered_chunks = <<>>
  /\ scored_chunks = <<>>
  /\ result = NoContext

\* lines 179-275: the body of the module
ImportModule ==
  /\ pc = "start"
  /\ pc' = "ready"
  /\ EXACT_IMPORTANT_KEYWORDS' = LoadedExactKeywords(fs)
  /\ EPISODE_CHUNKS' = LoadedEpisodeChunks(fs)
  /\ GENERAL_CHUNKS' = LoadedGeneralChunks(fs)
  /\ UNCHANGED <<fs, STEMMER, MORPH, user_query, query_locations, filtered_chunks,
                 scored_chunks, result>>
  /\ UNCHANGED outsideAi

Retrieve == \E query \in Queries : retrieve_relevant_lore(query)

(***************************************************************************)
(* The Lore directories and the names LoreStructure is run over            *)
(***************************************************************************)
MaxEntries == 2
MaxSections == 2

CharacterEntryPool ==
  {"Sidorovic, Sidor: torgovec. Otnosenie Poncika - druzeskoe.",
   "Volk: stalker na Kordone",
   "Seryy, VOLK : novicok.  otnosenie  poncika: nejtralnoe, no s opaskoj",
   "Fanat, sidor,, Volk Odinocka:\n  vtoraa stroka",
   "bez dvoetocia",
   " , : pustye imena",
   "sidorovic: dvojnik"}

RelationshipSectionPool ==
  {"",
   "\nPersonazi, s kotorymi Poncik ne znakom: {\nVolk, Sidor Petrovic.\n}",
   "\nVragi {\nSeryy;\n\nnikto,\n}",
   "\nDruzya: {\nFanat: vernyj drug\n}"}

CharacterFiles ==
  {"Stalkery {\nVolk: stalker"}
    \cup {"Stalkery {\n" \o Join(e, "\n\n") \o "\n}" \o t :
            e \in Lists(CharacterEntryPool, MaxEntries), t \in RelationshipSectionPool}

LocationSectionPool ==
  {"Kordon, Predbannik: tihoe mesto",
   "Svalka / kordon - gory musora\nza Kordonom",
   "Bar (Sto Rentgen) ~ bar",
   "bez razdelitela",
   ": bez imeni"}

LocationFiles ==
  {Join(l, "\n\n") : l \in Lists(LocationSectionPool, MaxSections)}

TwoCharacters ==
  "Stalkery {\nSidorovic, Sidor: torgovec.\n\nFanat, sidor: stalker\n}"
TwoLocations == "Kordon, Predbannik: tihoe mesto\n\nSvalka / kordon - gory musora"
\* a character file with two malformed records between two well-formed ones
MalformedBetween ==
  "Stalkery {\nVolk, Seryy: stalker\n\nbez dvoetocia\n\n , : pustye imena\n\nFanat, Fan: novicok\n}"
\* a character file whose records stand under a header that holds "drug"
RecordsUnderRelationHeader ==
  "Drugie stalkery {\nFanat, Fan: novicok. Otnosenie Poncika - nejtralnoe\n}"

AnomalySectionPool ==
  {"Elektra, Molnia: b'et tokom",
   "Zarka (Ogon') - stolb plameni\nzzet",
   "Holodec / elektra ~ kislota",
   "bez razdelitela"}

AnomalyFiles ==
  {Join(l, "\n\n") : l \in Lists(AnomalySectionPool, MaxSections)}

MutantSectionPool ==
  {"Krovosos, Sosyc: nevidimka",
   "Slepoj pes; Sobaka - stai\nna Kordone",
   "Snork | krovosos ~ prygaet",
   ": bez imeni"}

MutantFiles ==
  {Join(l, "\n\n") : l \in Lists(MutantSectionPool, MaxSections)}

TwoAnomalies == "Elektra, Molnia: b'et tokom\n\nZarka (Ogon') - stolb plameni"
TwoMutants == "Krovosos, Sosyc: nevidimka\n\nSlepoj pes; Sobaka - stai"

NoDir ==
  [lore_dir |-> FALSE, characters_file |-> FALSE, characters |-> "",
   locations_file |-> FALSE, locations |-> "",
   anomalies_file |-> FALSE, anomalies |-> "",
   mutants_file |-> FALSE, mutants |-> ""]
EmptyDir == [NoDir EXCEPT !.lore_dir = TRUE]
FullDir ==
  [lore_dir |-> TRUE, characters_file |-> TRUE, characters |-> TwoCharacters,
   locations_file |-> TRUE, locations |-> TwoLocations,
   anomalies_file |-> TRUE, anomalies |-> TwoAnomalies,
   mutants_file |-> TRUE, mutants |-> TwoMutants]

StructureDirs ==
  {NoDir, EmptyDir}
    \cup {[FullDir EXCEPT !.characters = c] : c \in CharacterFiles \cup {MalformedBetween, RecordsUnderRelationHeader}}
    \cup {[FullDir EXCEPT !.locations = l] : l \in LocationFiles}
    \cup {[FullDir EXCEPT !.anomalies = a] : a \in AnomalyFiles}
    \cup {[FullDir EXCEPT !.mutants = m] : m \in MutantFiles}

Names ==
  {"", "nikto", "Sidorovic", "sidor", " SIDOR ", "volk", "Volk\n", "seryy", "FANAT",
   "volk odinocka", "kordon", " PREDBANNIK", "Svalka", "sto rentgen", "bar",
   "Elektra", " MOLNIA", "ogon'", "zarka", "KROVOSOS ", "sosyc", "sobaka", "snork"}

AiIdle ==
  /\ fs = NoLoreDir
  /\ pc = "idle"
  /\ STEMMER = FALSE
  /\ MORPH = FALSE
  /\ EXACT_IMPORTANT_KEYWORDS = {}
  /\ EPISODE_CHUNKS = <<>>
  /\ GENERAL_CHUNKS = <<>>
  /\ user_query = ""
  /\ query_locations = {}
  /\ filtered_chunks = <<>>
  /\ scored_chunks = <<>>
  /\ result = NoContext

LoreIdle ==
  /\ lore_fs = NoDir
  /\ lpc = "idle"
  /\ characters = EmptyDict
  /\ char_aliases_index = EmptyDict
  /\ locations = EmptyDict
  /\ loc_aliases_index = EmptyDict
  /\ anomalies = EmptyDict
  /\ mutants = EmptyDict
  /\ find_name = ""
  /\ found = None

LoreInit ==
  /\ lore_fs \in StructureDirs
  /\ lpc = "new"
  /\ characters = EmptyDict
  /\ char_aliases_index = EmptyDict
  /\ locations = EmptyDict
  /\ loc_aliases_index = EmptyDict
  /\ anomalies = EmptyDict
  /\ mutants = EmptyDict
  /\ find_name = ""
  /\ found = None

FindCharacterCall == \E name \in Names : find_character(name)
FindLocationCall == \E name \in Names : find_location(name)
FindAnomalyCall == \E name \in Names : find_anomaly(name)
FindMutantCall == \E name \in Names : find_mutant(name)

(***************************************************************************)
(* services/ai_service.py: get_ai_response, and database.py's              *)
(* log_usage_to_db                                                         *)
(***************************************************************************)
\* lines 461-472
MODELS_TO_TRY ==
  <<"groq/compound", "groq/compound-mini", "llama-3.3-70b-versatile",
    "moonshotai/kimi-k2-instruct", "moonshotai/kimi-k2-instruct-0905",
    "openai/gpt-oss-120b", "openai/gpt-oss-20b", "llama-3.1-8b-instant",
    "meta-llama/llama-4-maverick-17b-128e-instruct", "qwen/qwen3-32b">>

\* a Python value with its type: a str, an int, a CompletionUsage or None
StrValue(s) == [t |-> "str", s |-> s, n |-> 0]
IntValue(n) == [t |-> "int", s |-> "", n |-> n]
UsageValue(total_tokens) == [t |-> "usage", s |-> "", n |-> total_tokens]
NoneValue == [t |-> "none", s |-> "", n |-> 0]
\* bool(value)
Truthy(value) ==
  CASE value.t = "str" -> value.s # ""
    [] value.t = "int" -> value.n # 0
    [] value.t = "usage" -> TRUE
    [] OTHER -> FALSE

\* lines 489-494: re.sub(r"<think>.*?</think>", "", text, flags=re.DOTALL)
RECURSIVE RemoveThinkBlocks(_)
RemoveThinkBlocks(text) ==
  LET open == Find(text, "<think>", 1)
      close == IF open = 0 THEN 0 ELSE Find(text, "</think>", open + 7)
  IN IF open = 0 \/ close = 0 THEN text
     ELSE SubSeq(text, 1, open - 1)
            \o RemoveThinkBlocks(SubSeq(text, close + 8, Len(text)))
_strip_think_tags(text) == Strip(RemoveThinkBlocks(text))

\* the two fixed replies, lines 550 and 554-557
ERROR_MESSAGE == "Hm, cet u mena kakie-to nepoladki... Napisi potom."
LIMIT_MESSAGE == "Mla, a zamanalsa s toboj boltatq. Prihodi v drugoj raz."
ErrorReply == [message |-> ERROR_MESSAGE, model |-> "error"]
LimitReply == [message |-> LIMIT_MESSAGE, model |-> "limit_exceeded"]

EmptyDb == [usage |-> <<>>, incremented |-> <<>>]

\* database.py lines 78-109: log_usage_to_db on the tables database, with the
\* values its seven parameters are bound to. raised is the exception that
\* leaves the function, "" when it returns: building the row reads
\* usage_data.prompt_tokens, an AttributeError when usage_data is no usage
\* object, and the function catches sqlite3.Error only. A row is written when
\* sqlite3 can bind every column, and the counter update follows
log_usage_to_db(database, tg_id, username_, user_message, usage_data, ai_response, lore_chunks_count, model_name) ==
  IF ~Truthy(usage_data) THEN [db |-> database, raised |-> ""]
  ELSE IF usage_data.t # "usage" THEN [db |-> database, raised |-> "AttributeError"]
  ELSE LET row == [username |-> username_,
                   lore_chunks_sent |-> lore_chunks_count,
                   total_tokens |-> usage_data.n,
                   user_message |-> user_message,
                   ai_response |-> ai_response,
                   model_name |-> model_name]
           bindable == \A v \in {username_, lore_chunks_count, user_message,
                                 ai_response, model_name} : v.t # "usage"
       IN [db |-> [usage |-> IF bindable THEN Append(database.usage, row)
                             ELSE database.usage,
                   incremented |-> Append(database.incremented, tg_id)],
           raised |-> ""]

\* lines 519-538: what follows a response of the client in the loop. Line 533
\* passes six positional arguments, which are bound to the first six
\* parameters of log_usage_to_db: tg_id, username, user_message, usage_data,
\* ai_response, lore_chunks_count
ResponseReply(database, content, usage, model, uname, user_query_, count) ==
  IF content.t # "str" THEN [reply |-> ErrorReply, db |-> database]
  ELSE IF usage.t # "usage" THEN [reply |-> ErrorReply, db |-> database]
  ELSE LET ai_message == _strip_think_tags(content.s)
           logged == log_usage_to_db(database, StrValue(uname), StrValue(user_query_), usage,
                                     StrValue(ai_message), IntValue(count), StrValue(model),
                                     StrValue("unknown"))
       IN IF logged.raised # "" THEN [reply |-> ErrorReply, db |-> logged.db]
          ELSE [reply |-> [message |-> ai_message, model |-> model,
                           tokens |-> usage.n],
                db |-> logged.db]

\* a loop that goes on to the next model after every exception
LoopContinues_AnyException(kind) == kind # "response"
\* lines 539-541: except RateLimitError: continue
LoopContinues(kind) == kind = "RateLimitError"

\* what a request to the client ends with: a response with its message content
\* and usage, a RateLimitError, an exception whose text holds
\* "Error code: 413" and "Request Entity Too Large", or another exception
Outcome(kind, content, usage) == [kind |-> kind, content |-> content, usage |-> usage]
Contents ==
  {NoneValue, StrValue(""), StrValue("<think>dumau</think>"),
   StrValue(" <think>a\nb</think> privet, <think>c</think>stalker "), StrValue("privet")}
Usages == {NoneValue, UsageValue(7)}
Outcomes ==
  {Outcome(k, NoneValue, NoneValue) : k \in {"RateLimitError", "TooLarge", "Exception"}}
    \cup {Outcome("response", c, u) : c \in Contents, u \in Usages}

\* the histories and the retrieval results a call is made with
Histories ==
  {<<[role |-> "user", content |-> "privet"]>>,
   <<[role |-> "user", content |-> "privet"],
     [role |-> "assistant", content |-> "cego nado"],
     [role |-> "user", content |-> "rasskazi pro Kordon"]>>}
LoreResults == {NoContext} \cup {[context |-> "Na Kordone tiho.", count |-> n] : n \in 1..TOP_K}

\* lines 495-511: the call up to its first request
get_ai_response(history, uname) ==
  /\ rpc = "idle"
  /\ rpc' = "main_loop"
  /\ message_history' = history
  /\ username' = uname
  /\ lore_result' \in LoreResults
  /\ model_index' = 1
  /\ requests' = <<>>
  /\ UNCHANGED <<db, reply>>
  /\ UNCHANGED outsideResp
GetAiResponse == \E history \in Histories : get_ai_response(history, "Vasya")

\* lines 512-557: the request to the model of the loop ends, and what the
\* call does up to its next request or its return
MainRequest ==
  /\ rpc = "main_loop"
  /\ \E outcome \in Outcomes :
       LET model == MODELS_TO_TRY[model_index]
           user_query_ == message_history[Len(message_history)].content
           answered == ResponseReply(db, outcome.content, outcome.usage, model,
                                     username, user_query_, lore_result.count)
       IN /\ requests' = Append(requests, [model |-> model, lore |-> TRUE,
                                           outcome |-> outcome])
          /\ IF outcome.kind = "response"
             THEN /\ rpc' = "returned"
                  /\ reply' = answered.reply
                  /\ db' = answered.db
                  /\ UNCHANGED model_index
             ELSE IF LoopContinues(outcome.kind)
             THEN IF model_index < Len(MODELS_TO_TRY)
                  THEN /\ model_index' = model_index + 1
                       /\ UNCHANGED <<rpc, reply, db>>
                  ELSE /\ rpc' = "returned"
                       /\ reply' = LimitReply
                       /\ UNCHANGED <<model_index, db>>
             ELSE IF outcome.kind = "TooLarge"
             THEN /\ rpc' = "without_lore"
                  /\ UNCHANGED <<model_index, reply, db>>
             ELSE /\ rpc' = "returned"
                  /\ reply' = ErrorReply
                  /\ UNCHANGED <<model_index, db>>
  /\ UNCHANGED <<message_history, username, lore_result>>
  /\ UNCHANGED outsideResp

\* lines 560-587: get_ai_response_without_lore, from the end of its request.
\* Every exception ends in the error reply, and so does a response: line 579
\* gives log_usage_to_db four positional arguments and the keywords
\* lore_chunks_count and model_name, its parameter ai_response gets no value
\* and the call is a TypeError
WithoutLoreRequest ==
  /\ rpc = "without_lore"
  /\ \E outcome \in Outcomes :
       requests' = Append(requests, [model |-> MODELS_TO_TRY[model_index],
                                     lore |-> FALSE, outcome |-> outcome])
  /\ rpc' = "returned"
  /\ reply' = ErrorReply
  /\ UNCHANGED <<message_history, username, lore_result, model_index, db>>
  /\ UNCHANGED outsideResp

RespIdle ==
  /\ rpc = "idle"
  /\ message_history = <<>>
  /\ username = ""
  /\ lore_result = NoContext
  /\ model_index = 1
  /\ requests = <<>>
  /\ db = EmptyDb
  /\ reply = ErrorReply

\* the caller has the reply
ResponseReturn ==
  /\ rpc = "returned"
  /\ rpc' = "idle"
  /\ message_history' = <<>>
  /\ username' = ""
  /\ lore_result' = NoContext
  /\ model_index' = 1
  /\ requests' = <<>>
  /\ reply' = ErrorReply
  /\ UNCHANGED db
  /\ UNCHANGED outsideResp

(***************************************************************************)
(* handlers/start_command.py, reset_command.py and echo.py: the private    *)
(* chat of one user. The application handles one update at a time, so a    *)
(* handler runs from its start to its end before the next update           *)
(***************************************************************************)
\* config.py lines 57-60
BLACKLIST == {1754638261}
UserIds == {1001} \cup BLACKLIST

\* context.user_data: a dict, keys its keys; a key that is absent has the
\* value its .get() default gives
EmptyUserData == [keys |-> {}, age_verified |-> FALSE, chat_history |-> <<>>]

\* the replies of the handlers
BLOCKED_TEXT == "Izvinite, no vam byl ogranicen dostup k funkciam etogo bota."
MAINTENANCE_TEXT == "[RU]Bot na obnovlenii. Napisi popozje!"
CONFIRM_FIRST_TEXT == "Snacala podtverdi svoj vozrast, nazav /start."
SPAM_TEXT == "Kazetsa, eto soobsenie pohoze na spam."
TOO_SHORT_TEXT == "I ce eto? Napisi podrobnee, eprst"
EMPTY_ANSWER_TEXT == "Sprosi lucs ce-nibudq drugoe."
AI_PROBLEM_TEXT == "U mena kakie-to problemy s II sejcas ~ poprobuj pozze."
WELCOME_TEXT == "A - legenda Zony Poncik! Ty prines mne pozratq?"
CONFIRM_AGE_TEXT == "\n\nDla prodolzenia podtverdi, cto tebe estq 18 let."
RESET_DONE_TEXT == "Vse tvoi dannye sterty. Nazmi /start, ctoby nacatq zanovo."
NOTHING_TO_RESET_TEXT == "Stiratq necego, a teba i tak ne pomnu."

\* s repeated n times
RECURSIVE Repeat(_, _)
Repeat(s, n) == IF n = 0 THEN "" ELSE s \o Repeat(s, n - 1)

\* echo.py lines 14-29: alnum_count / length < 0.4 in whole numbers
is_spam(text) ==
  LET length == Len(text)
      alnum_count == Cardinality({i \in 1..length : IsAlnum(Ch(text, i))})
      unique_chars == Cardinality({Ch(text, i) : i \in 1..length})
  IN IF length < 150 THEN FALSE
     ELSE (10 * alnum_count < 4 * length) \/ (unique_chars < 15 /\ length > 200)

\* seq[-n:]
LastN(seq, n) == IF Len(seq) <= n THEN seq ELSE SubSeq(seq, Len(seq) - n + 1, Len(seq))

\* a history that is not cut
Trimmed_Whole(chat_history) == chat_history
\* echo.py line 82: chat_history[-6:]
Trimmed(chat_history) == LastN(chat_history, 6)

\* a handler that answers everybody
AgeVerified_Everybody(data) == TRUE
\* echo.py line 53, start_command.py line 16: context.user_data.get("age_verified")
AgeVerified(data) == "age_verified" \in data.keys /\ data.age_verified

\* an assistant entry for every reply
IsModelReply_Any(used_model) == TRUE
\* echo.py line 102
IsModelReply(used_model) == used_model \notin {"error", "limit_exceeded"}

\* what the awaited calls of echo_logic end with: send_chat_action raises, or
\* get_ai_response returns one of the dicts its return statements build
\* (ai_service.py lines 534-538, 550 and 554-557)
Replies ==
  {ErrorReply, LimitReply}
    \cup {[message |-> m, model |-> MODELS_TO_TRY[i], tokens |-> 7] :
            m \in {"", "cego nado"}, i \in {1, Len(MODELS_TO_TRY)}}
EchoOutcomes ==
  {[raised |-> TRUE, response |-> ErrorReply]}
    \cup {[raised |-> FALSE, response |-> r] : r \in Replies}

\* the run of a handler as the chat sees it: nothing retrieved, no request
Quiet(data, texts) ==
  [user_data |-> data, retrieved |-> FALSE, ai_history |-> <<>>, sent |-> texts]

\* echo.py lines 69-111: the answer to a message that passed the checks. The
\* list of line 82 is the one line 83 stores, so the entry line 103 appends is
\* in user_data
Answer(data, message_text, outcome) ==
  LET chat_history ==
        Trimmed(Append(IF "chat_history" \in data.keys THEN data.chat_history
                       ELSE <<>>,
                       [role |-> "user", content |-> message_text]))
      stored == [data EXCEPT !.keys = @ \cup {"chat_history"},
                             !.chat_history = chat_history]
      ai_message == outcome.response.message
      used_model == outcome.response.model
  IN IF outcome.raised
     THEN [user_data |-> stored, retrieved |-> TRUE, ai_history |-> <<>>,
           sent |-> <<AI_PROBLEM_TEXT>>]
     ELSE IF ai_message = ""
     THEN [user_data |-> stored, retrieved |-> TRUE, ai_history |-> chat_history,
           sent |-> <<EMPTY_ANSWER_TEXT>>]
     ELSE [user_data |->
             IF IsModelReply(used_model)
             THEN [stored EXCEPT !.chat_history =
                     Append(chat_history, [role |-> "assistant", content |-> ai_message])]
             ELSE stored,
           retrieved |-> TRUE, ai_history |-> chat_history,
           sent |-> <<ai_message>>]

\* utils.py lines 9-25 and echo.py lines 39-111: echo_logic under
\* check_blacklist
echo_logic(uid, maintenance, data, message_text, outcome) ==
  IF uid \in BLACKLIST THEN Quiet(data, <<BLOCKED_TEXT>>)
  ELSE IF maintenance THEN Quiet(data, <<MAINTENANCE_TEXT>>)
  ELSE IF ~AgeVerified(data) THEN Quiet(data, <<CONFIRM_FIRST_TEXT>>)
  ELSE IF is_spam(message_text) THEN Quiet(data, <<SPAM_TEXT>>)
  ELSE IF Len(Strip(message_text)) <= 2 THEN Quiet(data, <<TOO_SHORT_TEXT>>)
  ELSE Answer(data, message_text, outcome)

\* the text messages of the user
Messages ==
  {"rasskazi pro Kordon", "kto takoj Sidorovic?", " a ", Repeat("?!", 80)}

Echo ==
  \E message_text \in Messages, outcome \in EchoOutcomes :
    LET run == echo_logic(user_id, BOT_MAINTENANCE, user_data, message_text, outcome)
    IN /\ update' = [kind |-> "text", text |-> message_text]
       /\ user_data' = run.user_data
       /\ retrieved' = run.retrieved
       /\ ai_history' = run.ai_history
       /\ sent' = run.sent
       /\ UNCHANGED <<user_id, BOT_MAINTENANCE, button_sent>>
       /\ UNCHANGED outsidePriv

\* start_command.py lines 7-24
start ==
  /\ update' = [kind |-> "start", text |-> "/start"]
  /\ sent' = <<IF AgeVerified(user_data) THEN WELCOME_TEXT
               ELSE WELCOME_TEXT \o CONFIRM_AGE_TEXT>>
  /\ button_sent' = (button_sent \/ ~AgeVerified(user_data))
  /\ retrieved' = FALSE
  /\ ai_history' = <<>>
  /\ UNCHANGED <<user_id, BOT_MAINTENANCE, user_data>>
  /\ UNCHANGED outsidePriv

\* reset_command.py lines 17-27: the button of a /start message is pressed;
\* query.answer() may raise, and then the handler ends there
confirm_age_callback ==
  /\ button_sent
  /\ \E answered \in BOOLEAN :
       user_data' = IF answered
                    THEN [user_data EXCEPT !.keys = @ \cup {"age_verified"},
                                           !.age_verified = TRUE]
                    ELSE user_data
  /\ update' = [kind |-> "callback", text |-> "confirm_age"]
  /\ sent' = <<>>
  /\ retrieved' = FALSE
  /\ ai_history' = <<>>
  /\ UNCHANGED <<user_id, BOT_MAINTENANCE, button_sent>>
  /\ UNCHANGED outsidePriv

\* reset_command.py lines 7-15
reset ==
  /\ update' = [kind |-> "reset", text |-> "/reset"]
  /\ user_data' = IF user_data.keys # {} THEN EmptyUserData ELSE user_data
  /\ sent' = <<IF user_data.keys # {} THEN RESET_DONE_TEXT ELSE NOTHING_TO_RESET_TEXT>>
  /\ retrieved' = FALSE
  /\ ai_history' = <<>>
  /\ UNCHANGED <<user_id, BOT_MAINTENANCE, button_sent>>
  /\ UNCHANGED outsidePriv

\* echo.py line 37: from maintenance import BOT_MAINTENANCE; the module is not
\* among the files, the flag is the one or the other for the whole run
BotMaintenanceValues == BOOLEAN

NoUpdate == [kind |-> "", text |-> ""]
PrivIdle ==
  /\ user_id = 0
  /\ BOT_MAINTENANCE = FALSE
  /\ user_data = EmptyUserData
  /\ button_sent = FALSE
  /\ update = NoUpdate
  /\ retrieved = FALSE
  /\ ai_history = <<>>
  /\ sent = <<>>

PrivInit ==
  /\ user_id \in UserIds
  /\ BOT_MAINTENANCE \in BotMaintenanceValues
  /\ user_data = EmptyUserData
  /\ button_sent = FALSE
  /\ update = NoUpdate
  /\ retrieved = FALSE
  /\ ai_history = <<>>
  /\ sent = <<>>

(***************************************************************************)
(* handlers/group_handler.py and cdcheck_command.py: the random replies    *)
(* in the group chats, one update at a time                                *)
(***************************************************************************)
\* group_handler.py lines 16 and 18
REPLY_CHANCE == 3
REPLY_COOLDOWN == 30 * 60

\* config.ALLOWED_GROUP_IDS, which config.py does not define: two groups
ALLOWED_GROUP_IDS == {-1001, -1002}
GroupChats == ALLOWED_GROUP_IDS \cup {-2000}

\* time.time() in seconds: from Epoch on, in steps of ClockStep up to MaxClock
Epoch == 3600
ClockStep == 900
MaxClock == 5400
\* the stored history of a chat is let grow up to MaxStored entries
MaxStored == 6

\* context.chat_data of a chat: a dict, keys its keys
EmptyChatData == [keys |-> {}, last_random_reply_time |-> 0, chat_history |-> <<>>]
\* context.chat_data.get('last_random_reply_time', 0)
LastReplyTime(data) ==
  IF "last_random_reply_time" \in data.keys THEN data.last_random_reply_time ELSE 0

\* a handler without a cooldown
CooldownActive_Never(current_time, data) == FALSE
\* group_handler.py lines 36-41
CooldownActive(current_time, data) ==
  current_time - LastReplyTime(data) < REPLY_COOLDOWN

\* what the awaited calls of lines 65-84 end with. raised: send_chat_action or
\* the call of get_ai_response raises (the call passes the keyword tg_id,
\* which get_ai_response of services/ai_service.py does not take: with that
\* function the call is a TypeError); response: the dict a get_ai_response
\* that takes it returns; final_response and was_filtered: the pair of
\* services.content_filter.filter_and_validate_response, a module that is
\* not among the files; delivered: reply_text does not raise
GroupOutcome(raised, response, final_response, was_filtered, delivered) ==
  [raised |-> raised, response |-> response, final_response |-> final_response,
   was_filtered |-> was_filtered, delivered |-> delivered]
GroupOutcomes ==
  {GroupOutcome(TRUE, ErrorReply, "", FALSE, FALSE),
   GroupOutcome(FALSE, [message |-> "", model |-> MODELS_TO_TRY[1], tokens |-> 7],
                "", FALSE, FALSE),
   GroupOutcome(FALSE, [message |-> "cego nado", model |-> MODELS_TO_TRY[1], tokens |-> 7],
                "", TRUE, FALSE),
   GroupOutcome(FALSE, [message |-> "cego nado", model |-> MODELS_TO_TRY[1], tokens |-> 7],
                "", FALSE, FALSE),
   GroupOutcome(FALSE, [message |-> "cego nado", model |-> MODELS_TO_TRY[1], tokens |-> 7],
                "cego nado", FALSE, FALSE),
   GroupOutcome(FALSE, [message |-> "cego nado", model |-> MODELS_TO_TRY[1], tokens |-> 7],
                "cego nado", FALSE, TRUE),
   GroupOutcome(FALSE, LimitReply, LIMIT_MESSAGE, FALSE, TRUE)}

\* the run sends final_response to the chat
Replies_(outcome) ==
  /\ ~outcome.raised
  /\ outcome.response.message # ""
  /\ ~outcome.was_filtered
  /\ outcome.final_response # ""
  /\ outcome.delivered

\* lines 59-103 on a copy of the stored list: nothing is stored without a reply
AnswerGroup_OnCopy(data, current_time, message_text, outcome) ==
  LET chat_history ==
        LastN(Append(IF "chat_history" \in data.keys THEN data.chat_history ELSE <<>>,
                     [role |-> "user", content |-> message_text]), 4)
  IN IF Replies_(outcome)
     THEN [chat_data |->
             [keys |-> data.keys \cup {"last_random_reply_time", "chat_history"},
              last_random_reply_time |-> current_time,
              chat_history |->
                Append(chat_history,
                       [role |-> "assistant", content |-> outcome.final_response])],
           sent |-> <<outcome.final_response>>]
     ELSE [chat_data |-> data, sent |-> <<>>]

\* lines 59-103: the try block. Line 61 takes the list stored in chat_data,
\* when there is one, and line 62 appends to that very list: the stored
\* history has the message from then on. Line 63 goes on with a new list of
\* the last 4 entries, which line 92 stores after a reply
AnswerGroup(data, current_time, message_text, outcome) ==
  LET appended ==
        Append(IF "chat_history" \in data.keys THEN data.chat_history ELSE <<>>,
               [role |-> "user", content |-> message_text])
      in_place == IF "chat_history" \in data.keys
                  THEN [data EXCEPT !.chat_history = appended]
                  ELSE data
      chat_history == LastN(appended, 4)
  IN IF Replies_(outcome)
     THEN [chat_data |->
             [keys |-> data.keys \cup {"last_random_reply_time", "chat_history"},
              last_random_reply_time |-> current_time,
              chat_history |->
                Append(chat_history,
                       [role |-> "assistant", content |-> outcome.final_response])],
           sent |-> <<outcome.final_response>>]
     ELSE [chat_data |-> in_place, sent |-> <<>>]

\* group_handler.py lines 20-103: random_group_reply on the chat_data of the
\* update's chat
random_group_reply(data, current_time, upd, roll, outcome) ==
  IF upd.from_bot \/ upd.chat \notin ALLOWED_GROUP_IDS
  THEN [chat_data |-> data, sent |-> <<>>]
  ELSE IF upd.media THEN [chat_data |-> data, sent |-> <<>>]
  ELSE IF CooldownActive(current_time, data) THEN [chat_data |-> data, sent |-> <<>>]
  ELSE IF roll # 1 THEN [chat_data |-> data, sent |-> <<>>]
  ELSE IF upd.text = "" \/ Len(Strip(upd.text)) < 3
  THEN [chat_data |-> data, sent |-> <<>>]
  ELSE AnswerGroup(data, current_time, upd.text, outcome)

NoReport == [c \in ALLOWED_GROUP_IDS |-> [status |-> "never", remaining |-> 0]]

\* the messages of the groups
GroupUpdates ==
  {[kind |-> "group", chat |-> c, text |-> t, from_bot |-> b, media |-> m] :
     c \in GroupChats, t \in {"kto idet na Kordon?", " a "}, b \in BOOLEAN, m \in BOOLEAN}

RandomGroupReply ==
  /\ \A c \in GroupChats : Len(chat_data[c].chat_history) < MaxStored
  /\ \E upd \in GroupUpdates, roll \in 1..REPLY_CHANCE, outcome \in GroupOutcomes :
       LET run == random_group_reply(chat_data[upd.chat], clock, upd, roll, outcome)
       IN /\ group_update' = [kind |-> "group", chat |-> upd.chat]
          /\ chat_data' = [chat_data EXCEPT ![upd.chat] = run.chat_data]
          /\ group_sent' = run.sent
          /\ replied_at' = IF run.sent # <<>>
                           THEN [replied_at EXCEPT ![upd.chat] = clock]
                           ELSE replied_at
  /\ cd_report' = NoReport
  /\ UNCHANGED clock
  /\ UNCHANGED outsideGroup

\* cdcheck_command.py lines 12-49, for the administrator: the status of every
\* allowed chat, and the seconds that remain while the cooldown is active
CooldownStatus(current_time, data) ==
  IF LastReplyTime(data) = 0 THEN [status |-> "never", remaining |-> 0]
  ELSE IF REPLY_COOLDOWN - (current_time - LastReplyTime(data)) > 0
  THEN [status |-> "active",
        remaining |-> REPLY_COOLDOWN - (current_time - LastReplyTime(data))]
  ELSE [status |-> "ready", remaining |-> 0]
cdcheck_command ==
  /\ cd_report' = [c \in ALLOWED_GROUP_IDS |-> CooldownStatus(clock, chat_data[c])]
  /\ group_update' = [kind |-> "cdcheck", chat |-> 0]
  /\ group_sent' = <<>>
  /\ UNCHANGED <<clock, chat_data, replied_at>>
  /\ UNCHANGED outsideGroup

\* time passes
Tick ==
  /\ clock < MaxClock
  /\ clock' = clock + ClockStep
  /\ UNCHANGED <<chat_data, group_update, group_sent, replied_at, cd_report>>
  /\ UNCHANGED outsideGroup

NoGroupUpdate == [kind |-> "", chat |-> 0]
GroupIdle ==
  /\ clock = 0
  /\ chat_data = [c \in GroupChats |-> EmptyChatData]
  /\ group_update = NoGroupUpdate
  /\ group_sent = <<>>
  /\ replied_at = [c \in GroupChats |-> 0]
  /\ cd_report = NoReport

GroupInit ==
  /\ clock = Epoch
  /\ chat_data = [c \in GroupChats |-> EmptyChatData]
  /\ group_update = NoGroupUpdate
  /\ group_sent = <<>>
  /\ replied_at = [c \in GroupChats |-> 0]
  /\ cd_report = NoReport

vars == <<aiVars, loreVars, respVars, privVars, groupVars>>

(***************************************************************************)
(* Properties of retrieve_relevant_lore                                    *)
(***************************************************************************)
Corpus == EPISODE_CHUNKS \o GENERAL_CHUNKS
CorpusSet == Range(Corpus)
Ctx == QueryContext(user_query)

\* the text has the word t among its lower-cased alphanumeric runs
HoldsTerm(text, t) == t \in Range(get_tokens(text))

\* C1: when the query's only non-stop-word term occurs in some chunk, the
\* call returns one fragment at least and a non-empty context that contains
\* the content of a chunk holding the term
C1_OnlyTermIsFound ==
  (pc = "returned" /\ Cardinality(Range(get_tokens(user_query))) = 1)
    => \A t \in Range(get_tokens(user_query)) :
         (\E c \in CorpusSet : HoldsTerm(c.content, t))
           => /\ result.count >= 1
              /\ result.context # ""
              /\ \E c \in CorpusSet :
                    HoldsTerm(c.content, t) /\ Contains(result.context, c.content)

\* the query has no letter and no digit: it is empty or made of whitespace
\* and punctuation
BlankQuery(query) == \A i \in 1..Len(query) : ~IsAlnum(Ch(query, i))
\* every word of the query is a stop-word
StopWordsOnly(query) == \A w \in Range(Words(query)) : Lower(w) \in STOP_WORDS

\* C2: a query that is empty, whitespace-only, punctuation-only or made only
\* of stop-words returns ("", 0) and no chunk is scored, whatever the corpus
C2_NoSignalQuery ==
  (pc = "returned" /\ (BlankQuery(user_query) \/ StopWordsOnly(user_query)))
    => /\ result.context = "" /\ result.count = 0
       /\ filtered_chunks = <<>> /\ scored_chunks = <<>>

C2_Witness ==
  /\ pc = "returned"
  /\ user_query = "i na u"
  /\ Corpus # <<>>
  /\ result.context = "" /\ result.count = 0
  /\ filtered_chunks = <<>>

\* C3: with an empty corpus (no lore file, or no lore directory) every query
\* returns ("", 0)
C3_EmptyCorpus ==
  (pc = "returned" /\ EPISODE_CHUNKS = <<>> /\ GENERAL_CHUNKS = <<>>)
    => result.context = "" /\ result.count = 0

C3_Witness ==
  /\ pc = "returned"
  /\ ~fs.root
  /\ EPISODE_CHUNKS = <<>> /\ GENERAL_CHUNKS = <<>>
  /\ user_query = "rasskazi pro Kordon"
  /\ result.context = "" /\ result.count = 0

\* the query asserts a location and no episodic chunk carries one of the
\* asserted locations as a tag
NoTaggedEpisode(query) ==
  /\ QueryLocations(query) # {}
  /\ \A c \in Range(EPISODE_CHUNKS) : c.locations \cap QueryLocations(query) = {}

\* C4: when the query asserts a location that tags no episodic chunk, the
\* candidates are all the episodic and general chunks, and a fragment is
\* returned whenever some chunk of the corpus scores above 0
C4_LocationFallback ==
  (pc = "returned" /\ get_stemmed_words(user_query) # {}
     /\ Corpus # <<>> /\ NoTaggedEpisode(user_query))
    => /\ filtered_chunks = EPISODE_CHUNKS \o GENERAL_CHUNKS
       /\ (\E c \in CorpusSet : Score(c, Ctx) > 0) => result.count >= 1

C4_Witness ==
  /\ pc = "returned"
  /\ NoTaggedEpisode(user_query)
  /\ EPISODE_CHUNKS # <<>>
  /\ \E c \in Range(GENERAL_CHUNKS) : Score(c, Ctx) > 0
  /\ result.count = 1

\* C5: one episode file tagged Kordon with the text "Na Kordone tiho.", the
\* general chunk "Zona polna opasnostej.", the query "rasskazi pro Kordon":
\* one fragment, and the context contains "Na Kordone tiho."
KordonScenario ==
  /\ Len(fs.episodes) = 1
  /\ fs.episodes[1].name \in {"kordon1.txt", "kordon2.txt"}
  /\ Len(fs.general) = 1
  /\ fs.general[1].name = "zona.txt"
  /\ user_query = "rasskazi pro Kordon"
C5_KordonScenario ==
  (pc = "returned" /\ KordonScenario)
    => result.count = 1 /\ Contains(result.context, "Na Kordone tiho.")


\* the chunk a scored entry was made from, and the entry of a chunk
IsEpisodeSource(source) == StartsAt(source, 1, "episodes/")
EntryOf(c, e) == e.source = c.source /\ e.content = c.content
\* the first place of the chunk in the sorted list, 0 when it is not there
Rank(c) ==
  IF \E i \in 1..Len(scored_chunks) : EntryOf(c, scored_chunks[i])
  THEN CHOOSE i \in 1..Len(scored_chunks) :
         /\ EntryOf(c, scored_chunks[i])
         /\ \A j \in 1..(i - 1) : ~EntryOf(c, scored_chunks[j])
  ELSE 0

\* C6: an episodic and a general chunk of the same content and the same
\* tags that score above 0 have scores in the ratio 1.2 : 1 (6 : 5), the
\* episodic one strictly higher; every episodic chunk gets the multiplier
\* and no general chunk does
C6_EpisodePriority ==
  pc = "returned" =>
    /\ \A i, j \in 1..Len(scored_chunks) :
         (/\ IsEpisodeSource(scored_chunks[i].source)
          /\ ~IsEpisodeSource(scored_chunks[j].source)
          /\ scored_chunks[i].content = scored_chunks[j].content
          /\ scored_chunks[i].locations = scored_chunks[j].locations)
           => /\ EPISODE_DEN * scored_chunks[i].score = EPISODE_NUM * scored_chunks[j].score
              /\ scored_chunks[i].score > scored_chunks[j].score
    /\ \A c \in CorpusSet :
         PriorityFactor(c) = IF IsEpisodeSource(c.source) THEN EPISODE_NUM ELSE EPISODE_DEN

C6_Witness ==
  /\ pc = "returned"
  /\ Len(scored_chunks) = 2
  /\ IsEpisodeSource(scored_chunks[1].source)
  /\ ~IsEpisodeSource(scored_chunks[2].source)
  /\ scored_chunks[1].content = scored_chunks[2].content
  /\ scored_chunks[1].locations = scored_chunks[2].locations
  /\ scored_chunks[2].score > 0

\* the sum of the weights of the matched stems of a ranked entry
RawKeywordScore(entry) == SumWeights(entry.matched_keywords)
\* a ranked episodic entry and a ranked general entry had the same score
\* before the episode multiplier
TieBeforePriority(episodic, general) ==
  EPISODE_DEN * episodic.score = EPISODE_NUM * general.score

\* C7 as stated: when an episodic and a general candidate have the same sum
\* of weights over their matched stems (above 0, so that both are ranked),
\* the episodic one is ranked before the general one and the general one is
\* not the one returned
C7_RawTieEpisodeFirst ==
  pc = "returned" =>
    \A i, j \in 1..Len(scored_chunks) :
      (/\ IsEpisodeSource(scored_chunks[i].source)
       /\ ~IsEpisodeSource(scored_chunks[j].source)
       /\ RawKeywordScore(scored_chunks[i]) = RawKeywordScore(scored_chunks[j])
       /\ RawKeywordScore(scored_chunks[i]) > 0)
        => i < j /\ j > TOP_K

\* C7 amended: when an episodic and a general candidate have the same score
\* before the episode multiplier (keyword weights, bonuses and coverage
\* factor together) and that score is above 0, the episodic one is ranked
\* before the general one, and the general one is not the one returned
C7_TieBeforePriorityEpisodeFirst ==
  pc = "returned" =>
    \A i, j \in 1..Len(scored_chunks) :
      (/\ IsEpisodeSource(scored_chunks[i].source)
       /\ ~IsEpisodeSource(scored_chunks[j].source)
       /\ TieBeforePriority(scored_chunks[i], scored_chunks[j]))
        => i < j /\ j > TOP_K

C7_Witness ==
  /\ pc = "returned"
  /\ \E j \in 2..Len(scored_chunks) :
       /\ IsEpisodeSource(scored_chunks[1].source)
       /\ ~IsEpisodeSource(scored_chunks[j].source)
       /\ scored_chunks[1].content # scored_chunks[j].content
       /\ TieBeforePriority(scored_chunks[1], scored_chunks[j])
       /\ result.context = scored_chunks[1].content
       /\ result.count = 1

\* chunk b is chunk a with one more word, whose stem is a stem of the query
OneMoreQueryStem(a, b) ==
  /\ a.source = b.source
  /\ a.locations = b.locations
  /\ InEpisodeChunks(a) = InEpisodeChunks(b)
  /\ \E w \in Range(Words(b.content)) :
       /\ b.content = a.content \o " " \o w
       /\ get_stemmed_words(w) # {}
       /\ get_stemmed_words(w) \subseteq get_stemmed_words(user_query)

\* C8: for a fixed query, a chunk that differs from another only by one more
\* stem that the query has too does not score lower
C8_MonotonicScore ==
  pc = "returned" =>
    \A a, b \in CorpusSet : OneMoreQueryStem(a, b) => Score(b, Ctx) >= Score(a, Ctx)

C8_Witness ==
  /\ pc = "returned"
  /\ \E a, b \in Range(filtered_chunks) :
       /\ OneMoreQueryStem(a, b)
       /\ Score(a, Ctx) > 0
       /\ Score(b, Ctx) > Score(a, Ctx)
       /\ Rank(b) = 1

(***************************************************************************)
(* Properties of LoreStructure                                             *)
(***************************************************************************)
\* the records of the character file that _parse_character_entry makes a
\* Character of, in the order they are parsed: the n-th has id n
WellFormedEntry(text) == Contains(text, ":") /\ EntryRawNames(text) # <<>>
LoadedEntries ==
  IF lore_fs.lore_dir /\ lore_fs.characters_file
  THEN SelectSeq(CharacterEntries(lore_fs.characters), WellFormedEntry)
  ELSE <<>>
EntryKey(text) == Lower(Title(EntryRawNames(text)[1]))
\* the names a record claims: its canonical name and its aliases, folded
EntryClaims(text) == {Lower(n) : n \in Range(EntryRawNames(text))} \cup {EntryKey(text)}

\* the same for the sections of the locations file
SectionFirstLine(section) == Split(Strip(section), "\n")[1]
WellFormedSection(section) ==
  /\ Strip(section) # ""
  /\ \E c \in LocationMarks : Contains(SectionFirstLine(section), c)
  /\ LocParts(SectionFirstLine(section)) # <<>>
LoadedSections ==
  IF lore_fs.lore_dir /\ lore_fs.locations_file
  THEN SelectSeq(Split(lore_fs.locations, "\n\n"), WellFormedSection)
  ELSE <<>>
SectionKey(section) == Lower(Title(LocParts(SectionFirstLine(section))[1]))
SectionClaims(section) ==
  Range(LocParts(SectionFirstLine(section))) \cup {SectionKey(section)}

\* the names of a loaded record, folded
NamesOf(c) == {Lower(c.name)} \cup c.aliases
Folded(name) == Strip(Lower(name))

\* C9 as stated: after the load, find_character of the canonical name or of
\* an alias of a loaded character, in any letter case and with surrounding
\* spaces, returns that character
C9_EveryNameFindsItsCharacter ==
  lpc = "found_character" =>
    \A key \in DOMAIN characters :
      Folded(find_name) \in NamesOf(characters[key])
        => found.id = characters[key].id

\* C9 amended: find_character of a name of a loaded character c, in any
\* letter case and with surrounding spaces, returns c when no record parsed
\* after c claims that name as its canonical name or as an alias
C9_UnclaimedNameFindsItsCharacter ==
  lpc = "found_character" =>
    \A key \in DOMAIN characters :
      (/\ Folded(find_name) \in NamesOf(characters[key])
       /\ \A j \in (characters[key].id + 1)..Len(LoadedEntries) :
            Folded(find_name) \notin EntryClaims(LoadedEntries[j]))
        => found.id = characters[key].id

C9_Witness ==
  /\ lpc = "found_character"
  /\ Cardinality(DOMAIN characters) = 2
  /\ \E key \in DOMAIN characters :
       /\ Folded(find_name) \in characters[key].aliases
       /\ find_name # Folded(find_name)
       /\ characters[key].id = 1
       /\ found.id = 1

\* the last record of a list that claims the name
LastClaim(entries, Claims(_), n) ==
  CHOOSE j \in 1..Len(entries) :
    /\ n \in Claims(entries[j])
    /\ \A k \in (j + 1)..Len(entries) : n \notin Claims(entries[k])

\* C10 as stated: when two records of one type claim the same name, as an
\* alias of one of them at least, the index keeps the name on the record
\* parsed first
C10_FirstWriterWins ==
  lpc = "loaded" =>
    /\ \A i, j \in 1..Len(LoadedEntries) :
         i < j =>
           \A n \in EntryClaims(LoadedEntries[i]) \cap EntryClaims(LoadedEntries[j]) :
             (n # EntryKey(LoadedEntries[i]) \/ n # EntryKey(LoadedEntries[j]))
               => char_aliases_index[n] = EntryKey(LoadedEntries[i])
    /\ \A i, j \in 1..Len(LoadedSections) :
         i < j =>
           \A n \in SectionClaims(LoadedSections[i]) \cap SectionClaims(LoadedSections[j]) :
             (n # SectionKey(LoadedSections[i]) \/ n # SectionKey(LoadedSections[j]))
               => loc_aliases_index[n] = SectionKey(LoadedSections[i])

\* C10 amended: the index of a type holds the names the records of the type
\* claim and no other, each with one key, and a name that several records
\* claim resolves to the key of the record parsed last
C10_LastWriterWins ==
  lpc = "loaded" =>
    /\ DOMAIN char_aliases_index =
         UNION {EntryClaims(LoadedEntries[i]) : i \in 1..Len(LoadedEntries)}
    /\ \A n \in DOMAIN char_aliases_index :
         char_aliases_index[n] =
           EntryKey(LoadedEntries[LastClaim(LoadedEntries, EntryClaims, n)])
    /\ DOMAIN loc_aliases_index =
         UNION {SectionClaims(LoadedSections[i]) : i \in 1..Len(LoadedSections)}
    /\ \A n \in DOMAIN loc_aliases_index :
         loc_aliases_index[n] =
           SectionKey(LoadedSections[LastClaim(LoadedSections, SectionClaims, n)])

C10_Witness ==
  /\ lpc = "loaded"
  /\ \E i, j \in 1..Len(LoadedEntries) :
       /\ i < j
       /\ EntryKey(LoadedEntries[i]) # EntryKey(LoadedEntries[j])
       /\ EntryKey(LoadedEntries[i]) \in EntryClaims(LoadedEntries[j])
       /\ char_aliases_index[EntryKey(LoadedEntries[i])] = EntryKey(LoadedEntries[j])
  /\ \E i, j \in 1..Len(LoadedSections) :
       /\ i < j
       /\ SectionKey(LoadedSections[i]) # SectionKey(LoadedSections[j])
       /\ loc_aliases_index[SectionKey(LoadedSections[i])] = SectionKey(LoadedSections[j])

\* the record a lookup must return for a folded name n: every record of the
\* collection that has n among its names is the one returned
FindsItsRecord(collection) ==
  \A key \in DOMAIN collection :
    Folded(find_name) \in NamesOf(collection[key]) => found.id = collection[key].id
AllNamesOf(collection) == UNION {NamesOf(collection[key]) : key \in DOMAIN collection}

\* C11 as stated: for characters, locations, anomalies and mutants, the lookup
\* of any name or alias parsed for a record, case-folded and trimmed, returns
\* that record, and the lookup of a name no record has returns no record
C11_EveryAliasFindsItsRecord ==
  /\ lpc = "found_character" =>
       /\ FindsItsRecord(characters)
       /\ Folded(find_name) \notin DOMAIN char_aliases_index => found = None
  /\ lpc = "found_location" =>
       /\ FindsItsRecord(locations)
       /\ Folded(find_name) \notin DOMAIN loc_aliases_index => found = None
  /\ lpc = "found_anomaly" =>
       /\ FindsItsRecord(anomalies)
       /\ Folded(find_name) \notin AllNamesOf(anomalies) => found = None
  /\ lpc = "found_mutant" =>
       /\ FindsItsRecord(mutants)
       /\ Folded(find_name) \notin AllNamesOf(mutants) => found = None

\* every record of the character file, in file order, and the names the
\* well-formed ones claim
AllEntries ==
  IF lore_fs.lore_dir /\ lore_fs.characters_file
  THEN CharacterEntries(lore_fs.characters) ELSE <<>>
KeysOf(entries) == {EntryKey(entries[n]) : n \in 1..Len(entries)}
ClaimsOf(entries) == UNION {EntryClaims(entries[n]) : n \in 1..Len(entries)}
\* the characters and the alias index are those of the records entries
HoldsRecords(entries) ==
  /\ DOMAIN characters = KeysOf(entries)
  /\ DOMAIN char_aliases_index = ClaimsOf(entries)
  /\ \A key \in DOMAIN characters :
       /\ characters[key].id \in 1..Len(entries)
       /\ EntryKey(entries[characters[key].id]) = key

\* C21: after the load the characters are those of the well-formed records
\* of the file, wherever a malformed record stands among them, and the alias
\* index holds the names the well-formed records claim and no other name: a
\* record without a colon or without a name adds nothing
C21_MalformedSkipped ==
  lpc = "loaded" => HoldsRecords(LoadedEntries)

\* malformed records stand between two well-formed ones, and both of these
\* are loaded
C21_Witness ==
  /\ lpc = "loaded"
  /\ \E i, j, k \in 1..Len(AllEntries) :
       /\ i < j /\ j < k
       /\ WellFormedEntry(AllEntries[i])
       /\ ~WellFormedEntry(AllEntries[j])
       /\ WellFormedEntry(AllEntries[k])
       /\ EntryKey(AllEntries[i]) # EntryKey(AllEntries[k])
       /\ {EntryKey(AllEntries[i]), EntryKey(AllEntries[k])} \subseteq DOMAIN characters
  /\ Cardinality(DOMAIN characters) = Len(LoadedEntries)

\* the characters as phase 1 leaves them, each with the relationship parsed
\* from its own record
AfterPhase1 ==
  ParseCharacterEntries([created |-> 0, characters |-> EmptyDict, index |-> EmptyDict],
                        AllEntries).characters
\* the names of the list entries of the blocks: the entries without a colon
\* of the blocks whose header stands for a relationship
RECURSIVE ListNames(_)
ListNames(entries) ==
  IF Len(entries) = 0 THEN <<>>
  ELSE (IF Contains(entries[1], ":") THEN <<>> ELSE ListedNames(entries[1]))
       \o ListNames(Tail(entries))
RECURSIVE GroupedNames(_)
GroupedNames(blocks) ==
  IF Len(blocks) = 0 THEN <<>>
  ELSE (IF HeaderRelation(blocks[1].block_header) = "" THEN <<>>
        ELSE ListNames(BlockEntries(blocks[1].block_content)))
       \o GroupedNames(Tail(blocks))
\* the key a listed name stands for: by the full name, else by its first word
KeyOfListed(raw_name) ==
  IF raw_name = "" THEN ""
  ELSE IF Get(char_aliases_index, Lower(raw_name)) # ""
       THEN Get(char_aliases_index, Lower(raw_name))
       ELSE Get(char_aliases_index, Words(Lower(raw_name))[1])
ListedKeys(names) == {KeyOfListed(names[n]) : n \in 1..Len(names)}
KeepsOwnRelationship(phase1, listed) ==
  /\ DOMAIN characters = DOMAIN phase1
  /\ \A key \in DOMAIN characters :
       /\ [characters[key] EXCEPT !.relationship = ""]
            = [phase1[key] EXCEPT !.relationship = ""]
       /\ key \notin listed => characters[key].relationship = phase1[key].relationship

\* C22: after the load every character is the one phase 1 parsed but for its
\* relationship, and a character that no entry of a grouped relationship list
\* names (one that is defined by its own record only) has the relationship
\* parsed from its own record
C22_OnlyListedChange ==
  (lpc = "loaded" /\ lore_fs.lore_dir /\ lore_fs.characters_file) =>
    KeepsOwnRelationship(AfterPhase1, ListedKeys(GroupedNames(Blocks(lore_fs.characters))))

(***************************************************************************)
(* More properties of retrieve_relevant_lore                               *)
(***************************************************************************)
\* the pair a call over the present collections returns for a query
AnswerTo(query) ==
  IF (EPISODE_CHUNKS = <<>> /\ GENERAL_CHUNKS = <<>>) \/ get_stemmed_words(query) = {}
  THEN EarlyReturn
  ELSE Selected(SortDesc(ScoredEntries(FilteredChunks(QueryLocations(query)),
                                       QueryContext(query)), <<>>))

\* the collections are what the import made of the lore directory
CorpusAsImported ==
  /\ EPISODE_CHUNKS = LoadedEpisodeChunks(fs)
  /\ GENERAL_CHUNKS = LoadedGeneralChunks(fs)
  /\ EXACT_IMPORTANT_KEYWORDS = LoadedExactKeywords(fs)

C13_ReturnsAPair ==
  /\ pc # "raised"
  /\ pc = "returned" =>
       /\ DOMAIN result = {"context", "count"}
       /\ result.context \in STRING
       /\ result.count \in Nat

\* a call whose query has only words of location names, so that no keyword
\* is left to divide by, has returned over a corpus with chunks
C13_Witness ==
  /\ pc = "returned"
  /\ EPISODE_CHUNKS \o GENERAL_CHUNKS # <<>>
  /\ get_stemmed_words(user_query) # {}
  /\ QueryKeywords(user_query) = {}
  /\ filtered_chunks # <<>>

\* the contents of the first n scored chunks, joined as line 447 joins them
JoinedContents(n) == Join([i \in 1..n |-> scored_chunks[i].content], Separator)

\* C14: the returned count is at most K (1), the context is the contents of
\* that many chunks from the head of the sorted candidates, each the content
\* of a chunk of the corpus, joined by the separator, and the count is 0
\* exactly when the context is the empty string
C14_CountAndContext ==
  pc = "returned" =>
    /\ result.count \in 0..TOP_K
    /\ result.count <= Len(scored_chunks)
    /\ result.context = JoinedContents(result.count)
    /\ \A i \in 1..result.count :
         \E c \in CorpusSet : c.content = scored_chunks[i].content
    /\ result.count = 0 <=> result.context = ""

\* more chunks scored than are returned
C14_Witness ==
  /\ pc = "returned"
  /\ Len(scored_chunks) > TOP_K
  /\ result.count = TOP_K
  /\ result.context = scored_chunks[1].content
  /\ result.context # ""

\* the tags of a chunk have a member equal to a location the query asserts
\* (the tags and the gazetteer names are in lower case)
TaggedAsAsserted(tags) == tags \cap query_locations # {}
SomeEpisodeTagged ==
  /\ get_stemmed_words(user_query) # {}
  /\ \E c \in Range(EPISODE_CHUNKS) : TaggedAsAsserted(c.locations)

\* C15: when the query asserts a location that tags an episodic chunk, the
\* candidates are exactly the episodic chunks tagged with an asserted
\* location, only candidates are scored, and the returned fragment comes
\* from an episode file and carries an asserted location among its tags
C15_OnlyTaggedEpisodes ==
  (pc = "returned" /\ SomeEpisodeTagged) =>
    /\ filtered_chunks =
         SelectSeq(EPISODE_CHUNKS, LAMBDA c : TaggedAsAsserted(c.locations))
    /\ \A i \in 1..Len(scored_chunks) :
         \E c \in Range(filtered_chunks) :
           /\ EntryOf(c, scored_chunks[i])
           /\ scored_chunks[i].locations = c.locations
    /\ result.count = 1 =>
         /\ IsEpisodeSource(scored_chunks[1].source)
         /\ TaggedAsAsserted(scored_chunks[1].locations)

\* a tagged episodic chunk is returned although a general chunk and an
\* episodic chunk with other tags hold a keyword of the query
C15_Witness ==
  /\ pc = "returned"
  /\ SomeEpisodeTagged
  /\ result.count = 1
  /\ \E g \in Range(GENERAL_CHUNKS) : MatchedKeywords(g, Ctx) # {}
  /\ \E e \in Range(EPISODE_CHUNKS) :
       /\ ~TaggedAsAsserted(e.locations)
       /\ e.locations # {}
       /\ MatchedKeywords(e, Ctx) # {}

\* candidate k is the first, in candidate order, of the candidates that
\* have the highest score m
FirstMaximum(k, m, ctx) ==
  \A j \in 1..Len(filtered_chunks) :
    LET score == Score(filtered_chunks[j], ctx)
    IN /\ score <= m
       /\ j < k => score < m
       /\ j = k => score = m

\* C16: a returned chunk has a score above 0, which is the highest score
\* among the candidates, and it is the first candidate of that score in
\* candidate order (the episodic chunks in load order, then the general
\* ones); nothing is returned only when every candidate scores 0
C16_FirstMaximum ==
  pc = "returned" =>
    LET ctx == Ctx
    IN /\ result.count = 1 =>
            /\ scored_chunks[1].score > 0
            /\ result.context = scored_chunks[1].content
            /\ \E k \in 1..Len(filtered_chunks) :
                 /\ EntryOf(filtered_chunks[k], scored_chunks[1])
                 /\ FirstMaximum(k, scored_chunks[1].score, ctx)
       /\ result.count = 0 => \A c \in Range(filtered_chunks) : Score(c, ctx) = 0
       /\ \A i \in 1..Len(filtered_chunks) :
            filtered_chunks[i] \in Range(EPISODE_CHUNKS)
              \/ \A j \in i..Len(filtered_chunks) :
                   filtered_chunks[j] \in Range(GENERAL_CHUNKS)

\* two candidates of different content share the highest score and the one
\* met first is returned
C16_Witness ==
  /\ pc = "returned"
  /\ result.count = 1
  /\ Len(scored_chunks) >= 2
  /\ scored_chunks[2].score = scored_chunks[1].score
  /\ scored_chunks[2].content # scored_chunks[1].content
  /\ \E i, j \in 1..Len(filtered_chunks) :
       /\ i < j
       /\ EntryOf(filtered_chunks[i], scored_chunks[1])
       /\ EntryOf(filtered_chunks[j], scored_chunks[2])
       /\ result.context = filtered_chunks[i].content

\* the stems of the query and of a scored chunk
QueryStems == get_stemmed_words(user_query)
ChunkStems(entry) == get_stemmed_words(entry.content)
\* a stem that is a word of a gazetteer name
IsLocationWord(stem) == \E loc \in KNOWN_LOCATIONS : stem \in STEMMED_LOCATIONS[loc]
\* the stems of the important names the call found in the query
NameStems ==
  UNION {get_stemmed_words(name) :
           name \in ExactTokenMatches(user_query) \cup ExactLemmaMatches(user_query)}

ScoreWithBonusForEqualTag(c) ==
  (SumWeights(MatchedKeywords(c, Ctx)) + ExactBonus(c, Ctx)
     + (IF TaggedAsAsserted(c.locations) THEN LOCATION_BONUS ELSE 0))
    * CoverageFactor(c, Ctx) * PriorityFactor(c)
ScoredAs(c, score) ==
  \E i \in 1..Len(scored_chunks) :
    /\ EntryOf(c, scored_chunks[i])
    /\ scored_chunks[i].locations = c.locations
    /\ scored_chunks[i].score = score

\* C18 as stated: the 10 points of the location bonus are in the score of a
\* candidate only when one of its tags is equal to a location the query
\* asserts; a tag that merely contains an asserted name earns nothing
C18_BonusOnlyForEqualTag ==
  (pc = "returned" /\ get_stemmed_words(user_query) # {}) =>
    \A c \in Range(filtered_chunks) :
      IF ScoreWithBonusForEqualTag(c) > 0
      THEN ScoredAs(c, ScoreWithBonusForEqualTag(c))
      ELSE \A score \in {scored_chunks[i].score : i \in 1..Len(scored_chunks)} :
             ~ScoredAs(c, score)

\* the gazetteer names that occur in a lower-cased query, and those whose
\* stems are all among the stems of a query
SubstringHits(query_lower) ==
  {loc \in KNOWN_LOCATIONS : Contains(query_lower, Lower(loc))}
StemSubsetHits(query_stems) ==
  {loc \in KNOWN_LOCATIONS : STEMMED_LOCATIONS[loc] \subseteq query_stems}
Detected == pc = "returned" /\ QueryStems # {} /\ Corpus # <<>>

\* C19: when a gazetteer name occurs in the lower-cased query the asserted
\* locations are exactly the names that occur in it, whatever the stems say;
\* when none occurs they are the names whose stems are all stems of the query
C19_TwoStages ==
  Detected =>
    LET substring_hits == SubstringHits(Lower(user_query))
    IN IF substring_hits # {}
       THEN query_locations = substring_hits
       ELSE query_locations = StemSubsetHits(QueryStems)

\* a name occurs in the query and the stems of the query cover another name
\* that does not occur in it: the second name is not asserted
C19_Witness ==
  /\ Detected
  /\ SubstringHits(Lower(user_query)) # {}
  /\ StemSubsetHits(QueryStems) \ SubstringHits(Lower(user_query)) # {}
  /\ query_locations = SubstringHits(Lower(user_query))

\* the segments of a file between blank lines that are not blank, in file
\* order and without their surrounding white space
Segments(content) ==
  LET pieces == SelectSeq(Split(content, "\n\n"), LAMBDA piece : Strip(piece) # "")
  IN [i \in 1..Len(pieces) |-> Strip(pieces[i])]
\* the chunks the files of a directory give: one for every segment, under
\* the path of its file, tagged with what the first line of the file names
\* when the file is an episode
RECURSIVE SegmentChunks(_, _, _)
SegmentChunks(files, prefix, episode) ==
  IF Len(files) = 0 THEN <<>>
  ELSE LET segments == Segments(files[1].content)
           tags == IF episode
                   THEN FileLocations(Split(files[1].content, "\n")[1])
                   ELSE {}
       IN [i \in 1..Len(segments) |->
             [source |-> prefix \o files[1].name, content |-> segments[i],
              locations |-> tags]]
          \o SegmentChunks(Tail(files), prefix, episode)
\* a chunk collection without the lemmas
Projected(chunks) ==
  [i \in 1..Len(chunks) |->
     [source |-> chunks[i].source, content |-> chunks[i].content,
      locations |-> chunks[i].locations]]

\* C20 as stated: after the import the episodic chunks are the segments of the
\* episode files, each with the tags of the first line of its file, and the
\* general chunks are the segments of the general files, whatever the shape
\* of a file, a single line included
C20_ChunksAreSegments ==
  pc # "start" =>
    /\ (fs.root /\ fs.episodes_dir) =>
         Projected(EPISODE_CHUNKS) = SegmentChunks(fs.episodes, "episodes/", TRUE)
    /\ fs.root => Projected(GENERAL_CHUNKS) = SegmentChunks(fs.general, "", FALSE)

(***************************************************************************)
(* The two normalizers of services/ai_service.py                           *)
(***************************************************************************)
\* the maximal runs of letters and digits of s, in the order they stand in s
RunStartsAt(s, i) == IsAlnum(Ch(s, i)) /\ (i = 1 \/ ~IsAlnum(Ch(s, i - 1)))
RunAt(s, i) ==
  SubSeq(s, i, CHOOSE j \in i..Len(s) :
                 /\ \A k \in i..j : IsAlnum(Ch(s, k))
                 /\ (j = Len(s) \/ ~IsAlnum(Ch(s, j + 1))))
RECURSIVE AlnumRunsFrom(_, _)
AlnumRunsFrom(s, i) ==
  IF i > Len(s) THEN <<>>
  ELSE (IF RunStartsAt(s, i) THEN <<Lower(RunAt(s, i))>> ELSE <<>>)
       \o AlnumRunsFrom(s, i + 1)
LowerRuns(s) == AlnumRunsFrom(s, 1)
NotStopWord(w) == w \notin STOP_WORDS
HasAlnum(s) == \E i \in 1..Len(s) : IsAlnum(Ch(s, i))
TokensAsClaimed(text, lemmatizer) ==
  /\ get_tokens(text) = SelectSeq(LowerRuns(text), NotStopWord)
  /\ Range(get_tokens(text)) \cap STOP_WORDS = {}
  /\ ~HasAlnum(text) => get_tokens(text) = <<>> /\ get_lemmas(text) = {}
  /\ ~lemmatizer =>
       /\ get_lemmas(text) = Range(get_tokens(text))
       /\ get_lemmas(text) \cap STOP_WORDS = {}

\* C23: the tokens of the query a retrieval was run on are, in the order of
\* the text, its maximal runs of letters and digits in lower case that are
\* no stop-words; without a lemmatizer the lemmas are the set of the tokens;
\* no stop-word is in either and a text without a letter or digit has none
C23_TokensAreRuns ==
  pc \in {"returned", "raised"} => TokensAsClaimed(user_query, MORPH)

\* a query with a stop-word, and two tokens or more, without a lemmatizer
C23_Witness ==
  /\ pc = "returned"
  /\ ~MORPH
  /\ Len(get_tokens(user_query)) >= 2
  /\ Len(LowerRuns(user_query)) > Len(get_tokens(user_query))
  /\ user_query # Lower(user_query)
  /\ get_lemmas(user_query) = Range(get_tokens(user_query))

SameWords(text, stemmer) ==
  get_stemmed_words(text) =
    IF stemmer THEN {Stem(t) : t \in Range(get_tokens(text))}
    ELSE Range(get_tokens(text))

\* C24: the stemmed words of the query a retrieval was run on are the tokens
\* of the query, each one stemmed when there is a stemmer: the two
\* normalizers split the text into the same words
C24_SameWords ==
  pc \in {"returned", "raised"} => SameWords(user_query, STEMMER)

(***************************************************************************)
(* Properties of get_ai_response                                           *)
(***************************************************************************)
\* the requests of the main loop, in the order they were sent
InMainLoop(request) == request.lore
MainRequests == SelectSeq(requests, InMainLoop)
RateLimited(request) == request.outcome.kind = "RateLimitError"
FallbackOrder(main) ==
  /\ Len(main) <= Len(MODELS_TO_TRY)
  /\ \A k \in 1..Len(main) : main[k].model = MODELS_TO_TRY[k]
  /\ \A k \in 2..Len(main) : RateLimited(main[k - 1])
  /\ \A j, k \in 1..Len(main) : j # k => main[j].model # main[k].model
  /\ \A k \in 1..Len(main) :
       ~RateLimited(main[k]) => k = Len(main) /\ rpc \in {"returned", "without_lore"}
  /\ rpc = "returned" =>
       (reply.model = "limit_exceeded"
          <=> /\ Len(main) = Len(MODELS_TO_TRY)
              /\ \A k \in 1..Len(main) : RateLimited(main[k]))

\* C25: the k-th request of the main loop goes to the k-th model of
\* MODELS_TO_TRY and follows a rate-limit error of the request before it, no
\* model is requested twice in the loop, a request that ends otherwise is the
\* last one of the loop, and the call returns the "limit_exceeded" reply if
\* and only if every model of the list raised a rate-limit error
C25_FallbackOrder == FallbackOrder(MainRequests)

\* every model was asked and the call returned the "limit_exceeded" reply
C25_Witness ==
  /\ rpc = "returned"
  /\ reply = LimitReply
  /\ Len(requests) = Len(MODELS_TO_TRY)
  /\ \A k \in 1..Len(requests) : requests[k].lore /\ RateLimited(requests[k])

\* the last request is one of the main loop, and the client answered it with
\* a message that is not empty without its think-blocks
AnsweredWithMessage(last) ==
  /\ last.lore
  /\ last.outcome.kind = "response"
  /\ last.outcome.content.t = "str"
  /\ last.outcome.usage.t = "usage"
  /\ _strip_think_tags(last.outcome.content.s) # ""
ReturnsTheAnswer(last) ==
  /\ reply = [message |-> _strip_think_tags(last.outcome.content.s),
              model |-> last.model,
              tokens |-> last.outcome.usage.n]
  /\ reply.model # "error"
  /\ db.usage # <<>>
  /\ db.usage[Len(db.usage)].lore_chunks_sent = IntValue(lore_result.count)
  /\ db.usage[Len(db.usage)].model_name = StrValue(last.model)

\* C26: when the request to a model is answered with a non-empty message, the
\* call returns that message without its think-blocks, the model's name and
\* the total token count, not the "error" reply, and a usage record with the
\* retrieval's fragment count is in the table
C26_SuccessIsReturned ==
  (rpc = "returned" /\ requests # <<>> /\ AnsweredWithMessage(requests[Len(requests)]))
    => ReturnsTheAnswer(requests[Len(requests)])

(***************************************************************************)
(* Properties of the handlers of a private chat                            *)
(***************************************************************************)
\* the user's age_verified flag is set
FlagSet(data) == "age_verified" \in data.keys /\ data.age_verified
\* the handler of the step's update retrieved lore or made an AI request
AsksAi == retrieved' \/ ai_history' # <<>>
AgeGate ==
  /\ AsksAi => update'.kind = "text" /\ FlagSet(user_data)
  /\ (~FlagSet(user_data) /\ FlagSet(user_data')) => update'.kind = "callback"
  /\ (update'.kind = "reset" /\ user_data.keys # {}) => ~FlagSet(user_data')

\* C27: a handler retrieves lore or makes an AI request only for a text
\* message handled while the user's age_verified flag is set; the flag
\* becomes set only in the handler of the age-confirmation callback, not in
\* /start; a /reset that clears the user's data leaves the flag unset, so no
\* AI request follows it before the callback is handled again
C27_AgeGate == [][AgeGate]_vars

\* a message of a verified user was answered by the AI
C27_Witness ==
  /\ update.kind = "text"
  /\ FlagSet(user_data)
  /\ retrieved
  /\ ai_history # <<>>
  /\ sent = <<"cego nado">>

AssistantEntries(history) ==
  {n \in 1..Len(history) : history[n].role = "assistant"}

\* C28: the history passed to get_ai_response has at most 6 entries and ends
\* with the message being handled; the stored chat_history has at most 7
\* entries, and none of its assistant entries is the text of the "error" or
\* the "limit_exceeded" reply
C28_HistoryBounds ==
  /\ Len(ai_history) <= 6
  /\ ai_history # <<>> =>
       ai_history[Len(ai_history)] = [role |-> "user", content |-> update.text]
  /\ Len(user_data.chat_history) <= 7
  /\ \A n \in AssistantEntries(user_data.chat_history) :
       user_data.chat_history[n].content \notin {ERROR_MESSAGE, LIMIT_MESSAGE}

\* six entries were passed, and the answer was stored as the seventh
C28_Witness ==
  /\ Len(ai_history) = 6
  /\ Len(user_data.chat_history) = 7
  /\ user_data.chat_history[7] = [role |-> "assistant", content |-> "cego nado"]
  /\ SubSeq(user_data.chat_history, 1, 6) = ai_history

(***************************************************************************)
(* Properties of random_group_reply                                        *)
(***************************************************************************)
\* the step is a run of random_group_reply, which sends a reply
IsGroupRun == clock' = clock /\ group_update'.kind = "group"
SendsReply == IsGroupRun /\ group_sent' # <<>>
StoredReplyTime(data) ==
  IF "last_random_reply_time" \in data.keys THEN data.last_random_reply_time ELSE 0
Cooldown ==
  /\ SendsReply =>
       /\ group_update'.chat \in ALLOWED_GROUP_IDS
       /\ clock - StoredReplyTime(chat_data[group_update'.chat]) >= 30 * 60
       /\ replied_at[group_update'.chat] # 0 =>
            clock - replied_at[group_update'.chat] >= 30 * 60
  /\ \A c \in GroupChats :
       StoredReplyTime(chat_data'[c]) # StoredReplyTime(chat_data[c]) =>
         SendsReply /\ c = group_update'.chat

\* C29: a run sends a reply only in an allowed chat and only when 30 minutes
\* or more have passed since the chat's last_random_reply_time; the stored
\* time of a chat changes only in a run that sends a reply to that chat; and
\* the run that sent the reply before began 30 minutes before or earlier
C29_Cooldown == [][Cooldown]_vars

\* a second reply was sent to a chat, 30 minutes after the first
C29_Witness ==
  \E c \in ALLOWED_GROUP_IDS :
    /\ group_update = [kind |-> "group", chat |-> c]
    /\ group_sent # <<>>
    /\ replied_at[c] = clock
    /\ clock >= Epoch + 30 * 60
    /\ Len(chat_data[c].chat_history) > 2
    /\ chat_data[c].last_random_reply_time = clock

NoReplyNoChange == (IsGroupRun /\ group_sent' = <<>>) => chat_data' = chat_data
StoredBounded == \A c \in GroupChats : Len(chat_data[c].chat_history) <= 5

Init == AiInit /\ LoreIdle /\ RespIdle /\ PrivIdle /\ GroupIdle

Next ==
  \/ ImportModule
  \/ Retrieve
  \/ Return

Spec == Init /\ [][Next]_vars

\* services/lore_structure.py on its own
InitLore == LoreInit /\ AiIdle /\ RespIdle /\ PrivIdle /\ GroupIdle

NextLore ==
  \/ LoreStructure
  \/ FindCharacterCall
  \/ FindLocationCall
  \/ FindAnomalyCall
  \/ FindMutantCall
  \/ FindReturn

SpecLore == InitLore /\ [][NextLore]_vars

\* get_ai_response on its own
InitResponse == RespIdle /\ AiIdle /\ LoreIdle /\ PrivIdle /\ GroupIdle

NextResponse ==
  \/ GetAiResponse
  \/ MainRequest
  \/ WithoutLoreRequest
  \/ ResponseReturn

SpecResponse == InitResponse /\ [][NextResponse]_vars

\* the private chat of one user on its own
InitPrivate == PrivInit /\ AiIdle /\ LoreIdle /\ RespIdle /\ GroupIdle

NextPrivate ==
  \/ start
  \/ confirm_age_callback
  \/ reset
  \/ Echo

SpecPrivate == InitPrivate /\ [][NextPrivate]_vars

\* the group chats on their own
InitGroup == GroupInit /\ AiIdle /\ LoreIdle /\ RespIdle /\ PrivIdle

NextGroup ==
  \/ RandomGroupReply
  \/ cdcheck_command
  \/ Tick

SpecGroup == InitGroup /\ [][NextGroup]_vars

====
